---- MODULE Spec2Model ----
(***************************************************************************)
(* Dual-token authentication layer of roll-a-bowl-fe.                      *)
(*                                                                         *)
(*   ApiTokenManager   src/lib/backend/api-token-manager.ts                *)
(*   request interceptor of createAuthenticatedAxiosClient                 *)
(*                     src/unnamed/part_009                                *)
(*   SessionManager / MemorySessionStorage   src/lib/session/index.ts      *)
(*                                                                         *)
(* Time is counted in milliseconds, as Date.getTime() does.  One step of   *)
(* the model is one run-to-completion piece of an async function: the      *)
(* code between two awaits.  In the token manager the clock does not       *)
(* advance while a promise reaction is queued (microtasks drain before     *)
(* timers and I/O run); a storage call of the session manager may take     *)
(* any time.                                                               *)
(***************************************************************************)
EXTENDS Integers, Sequences, FiniteSets, TLC

\* ------------------------------------------------------------------------
\* Bounds
\* ------------------------------------------------------------------------
MaxTicks == 1
MaxExchanges == 2
MaxPromises == 2
MaxIdLen == 5
MaxBootTicks == 3
MaxServed == 2

Callers == {"a", "b", "c"}
Procs == {"p", "q"}
Reqs == {"r1", "r2"}
SessionIds == {"sess_1"}
Slots == 1..MaxPromises

\* clock steps and token lifetimes the backend may grant (milliseconds)
TickSteps == {1000, 299000}
Lifetimes == {1000, 300000, 600000}
TokenVals == {"T1", "T2"}

\* clock steps, user-token lifetimes, user tokens and users of the session part
SessionTickSteps == {1}
SessionLifetimes == {0, 1}
UserTokens == {"U1", "U2"}
UserIds == {7}

\* the characters cookie values are written with: a string is a sequence of
\* them; "sess" and the words of the cookie syntax stand for runs of
\* letters, digits and hyphens
CookieChars == {"sess", "_", "1", ";", "=", " "}
\* the characters Cookie request headers are written with
HeaderChars == {"auth-session", "sess", ";", "=", " "}
\* SESSION_COOKIE_NAME: the default and another name
CookieNames == {<<"auth-session">>, <<"sid">>}
SessionConfigs == [cookieName : CookieNames, cookieSecure : BOOLEAN,
                   cookieSameSite : {<<"lax">>, <<"strict">>}]

\* ------------------------------------------------------------------------
\* Program constants and sentinels
\* ------------------------------------------------------------------------
refreshThresholdMs == 300000

NoToken == "null"
NoExpiry == -1
NoPromise == 0
None == "none"
NoAuth == << >>
NoSession == "null"
Err == "error"
Null == <<"null">>

TokenExchangeUrl == <<"v1", "tenant-auth", "token">>
RestUrls == { <<"v1", "user-auth", "login">>,
              <<"v1", "tenant-auth", "token">> }

VARIABLES
  now,             \* Date.now()
  ticks,           \* number of clock steps taken
  token,           \* ApiTokenManager.token
  expiresAt,       \* ApiTokenManager.expiresAt
  refreshPromise,  \* ApiTokenManager.refreshPromise: a promise slot or NoPromise
  promise,         \* the promises returned by refreshToken()
  xreq,            \* the POST /v1/tenant-auth/token request behind each promise
  exchangeCalls,   \* number of refreshToken() invocations so far
  answered,        \* number of exchange requests the backend has answered
  call,            \* the callers: outbound REST requests through the interceptor
  sessions,        \* MemorySessionStorage.sessions: the keys of the Map
  obj,             \* the SessionData objects, by id (the Map holds references to them)
  unused,          \* the ids generateSessionId() has not handed out yet
  removed,         \* ids whose record a delete has taken out of the Map
  expired,         \* ids whose record the expiry check of getSession() has taken out
  input,           \* the options createSession() was called with, and when, by id
  refreshed,       \* ids whose record refreshUserToken() has written
  proc,            \* the requests running SessionManager operations
  req,             \* the HTTP requests the Express server is handling
  codec,           \* the last run of the cookie codec: its input and what it gave
  boot             \* bootstrap(): where the process is on its way to server.listen()

tmVars == <<token, expiresAt, refreshPromise, promise, xreq, exchangeCalls, answered, call>>
sessVars == <<sessions, obj, unused, removed, expired, input, refreshed, proc>>
gwVars == <<req, codec, boot>>
vars == <<now, ticks, token, expiresAt, refreshPromise, promise, xreq, exchangeCalls, answered, call,
          sessions, obj, unused, removed, expired, input, refreshed, proc, req, codec, boot>>

BlankPromise == [state |-> "free", value |-> None, exp |-> NoExpiry, id |-> 0]
BlankXreq == [pc |-> "none", auth |-> NoAuth, awaiting |-> NoPromise]
BlankObj == [userId |-> 0, userToken |-> None, userTokenExpiresAt |-> NoExpiry,
             createdAt |-> NoExpiry, lastAccessedAt |-> NoExpiry]
BlankInput == [userId |-> 0, userToken |-> None, userTokenExpiresAt |-> NoExpiry, at |-> NoExpiry]
BlankProc == [pc |-> "idle", op |-> "none", sid |-> NoSession, session |-> NoSession,
              ret |-> NoSession, newUserToken |-> None, userTokenExpiresAt |-> NoExpiry,
              afterRemoval |-> FALSE, afterExpiry |-> FALSE]
NoFwd == [authorization |-> NoAuth, xUserToken |-> None]
NoLoginResponse == [token |-> None, expiresAt |-> << >>, user |-> 0]
NoBody == [email |-> << >>, password |-> << >>, query |-> FALSE]
BlankReq == [pc |-> "idle", route |-> "none", cookie |-> << >>, body |-> NoBody,
             sessionId |-> NoSession, session |-> NoSession,
             bearerToken |-> None, userToken |-> None,
             sentLogin |-> FALSE, loginResponse |-> NoLoginResponse, revoke |-> "none",
             upstream |-> "none", backendError |-> [status |-> -1, words |-> {}], mail |-> "none",
             fetched |-> FALSE, fwd |-> NoFwd,
             status |-> 0, resBody |-> << >>, setCookie |-> << >>]
BlankCodec == [op |-> "none", name |-> << >>, id |-> << >>, header |-> << >>,
               parsed |-> Null, mw |-> Null]
BlankCall == [pc |-> "idle", url |-> << >>, how |-> "none", awaiting |-> NoPromise,
              result |-> None, auth |-> NoAuth, sent |-> FALSE, xid |-> 0]

\* ------------------------------------------------------------------------
\* ApiTokenManager: pure parts
\* ------------------------------------------------------------------------

\* String.prototype.includes on a path, segment by segment
Includes(url, pat) ==
  \E i \in 1..(Len(url) - Len(pat) + 1) : SubSeq(url, i, i + Len(pat) - 1) = pat

\* variant: the interceptor tests for another path than the one refreshToken() posts to
isTokenExchangeEndpointOtherPath(url) == Includes(url, <<"v1", "tenant-auth", "exchange">>)

\* interceptor: config.url?.includes('/v1/tenant-auth/token')
isTokenExchangeEndpoint(url) == Includes(url, TokenExchangeUrl)

\* variant: the operands of the subtraction swapped
needsRefreshSwapped(exp, t) ==
  IF exp = NoExpiry THEN TRUE ELSE (t - exp) < refreshThresholdMs

\* variant: refresh only once the token has expired
needsRefreshWhenExpired(exp, t) ==
  IF exp = NoExpiry THEN TRUE ELSE t > exp

\* needsRefresh(): timeUntilExpiry < this.refreshThresholdMs
needsRefresh(exp, t) ==
  IF exp = NoExpiry THEN TRUE ELSE (exp - t) < refreshThresholdMs

\* isExpired(): new Date() > this.expiresAt
isExpired(exp, t) ==
  IF exp = NoExpiry THEN TRUE ELSE t > exp

\* variant: getToken() without the "refresh already in progress" test
getTokenBranchNoJoin(tok, exp, rp, t) ==
  IF tok # NoToken /\ exp # NoExpiry /\ ~needsRefresh(exp, t) THEN "cache" ELSE "start"

\* variant: getToken() returns whatever token is cached, without needsRefresh()
getTokenBranchNoMargin(tok, exp, rp, t) ==
  IF tok # NoToken /\ exp # NoExpiry THEN "cache"
  ELSE IF rp # NoPromise THEN "join"
  ELSE "start"

\* the three-way branch at the top of getToken()
getTokenBranch(tok, exp, rp, t) ==
  IF tok # NoToken /\ exp # NoExpiry /\ ~needsRefresh(exp, t) THEN "cache"
  ELSE IF rp # NoPromise THEN "join"
  ELSE "start"

\* variant: the catch branch drops the cached pair
refreshTokenOnFailureClears(tok, exp) == <<NoToken, NoExpiry>>

\* refreshToken(), catch branch: what the cached pair is after a failed exchange
refreshTokenOnFailure(tok, exp) == <<tok, exp>>

\* variant: the catch branch swallows the error and lets the request go
interceptorSendsOnErrorFallback == TRUE

\* interceptor, catch branch: is the request still sent when getToken() threw?
interceptorSendsOnError == FALSE

\* config.headers.Authorization = `Bearer ${bearerToken}`
authorizationHeader(bearerToken) == <<"Bearer", bearerToken>>

\* variant: clear() also forgets the refresh in flight
refreshPromiseAfterClearDropped(rp) == NoPromise

\* clear() assigns token and expiresAt only: what it leaves in refreshPromise
refreshPromiseAfterClear(rp) == rp

\* variant: getToken() returns without its finally block
refreshPromiseAfterFinallyKept(rp) == rp

\* getToken(), finally: this.refreshPromise = null
refreshPromiseAfterFinally(rp) == NoPromise

Settled(x) == promise[x].state \in {"fulfilled", "rejected"}

FreeSlot == CHOOSE x \in Slots : promise[x].state = "free" /\ \A y \in Slots : promise[y].state = "free" => x <= y

\* a settled promise nobody holds any more is garbage
Collect(prom, rp, cl, xr) ==
  [x \in Slots |->
     IF /\ prom[x].state \in {"fulfilled", "rejected"}
        /\ rp # x
        /\ \A p \in Callers : cl[p].awaiting # x
        /\ \A y \in Slots : xr[y].awaiting # x
     THEN BlankPromise ELSE prom[x]]

\* a promise reaction or an interceptor run is queued
MicrotaskPending ==
  \/ \E p \in Callers : call[p].pc \in {"started", "waiting"} /\ Settled(call[p].awaiting)
  \/ \E x \in Slots : xreq[x].pc = "intercept"

\* ------------------------------------------------------------------------
\* Strings, as String.prototype has them
\* ------------------------------------------------------------------------
Strings(n) == UNION {[1..k -> CookieChars] : k \in 0..n}
HeaderStrings(n) == UNION {[1..k -> HeaderChars] : k \in 0..n}

StartsWith(s, pre) == Len(s) >= Len(pre) /\ SubSeq(s, 1, Len(pre)) = pre

RECURSIVE Split(_, _)
\* s.split(sep), sep one character
Split(s, sep) ==
  IF \E i \in 1..Len(s) : s[i] = sep
  THEN LET i == CHOOSE j \in 1..Len(s) : s[j] = sep /\ \A k \in 1..(j - 1) : s[k] # sep
       IN <<SubSeq(s, 1, i - 1)>> \o Split(SubSeq(s, i + 1, Len(s)), sep)
  ELSE <<s>>

RECURSIVE Join(_, _)
\* parts.join(sep)
Join(parts, sep) ==
  IF parts = << >> THEN << >>
  ELSE IF Len(parts) = 1 THEN parts[1]
  ELSE parts[1] \o sep \o Join(Tail(parts), sep)

RECURSIVE Trim(_)
\* s.trim()
Trim(s) ==
  IF s # << >> /\ s[1] = " " THEN Trim(Tail(s))
  ELSE IF s # << >> /\ s[Len(s)] = " " THEN Trim(SubSeq(s, 1, Len(s) - 1))
  ELSE s

\* `${n}`
NumberToString(n) == <<ToString(n)>>

\* ------------------------------------------------------------------------
\* Session cookie utilities
\* ------------------------------------------------------------------------
cookieName == <<"auth-session">>
expiryMs == 3600000
cookieHttpOnly == TRUE

\* the configuration of a development build
DefaultSessionConfig ==
  [cookieName |-> cookieName, cookieSecure |-> FALSE, cookieSameSite |-> <<"lax">>]

\* variant: the cookie is made with an empty value
createSessionCookieBlank(sessionId, cfg) ==
  [name |-> cfg.cookieName, value |-> << >>,
   options |-> [maxAge |-> expiryMs \div 1000, path |-> <<"/">>,
                httpOnly |-> cookieHttpOnly, secure |-> cfg.cookieSecure,
                sameSite |-> cfg.cookieSameSite]]

\* createSessionCookie()
createSessionCookie(sessionId, cfg) ==
  [name |-> cfg.cookieName, value |-> sessionId,
   options |-> [maxAge |-> expiryMs \div 1000, path |-> <<"/">>,
                httpOnly |-> cookieHttpOnly, secure |-> cfg.cookieSecure,
                sameSite |-> cfg.cookieSameSite]]

\* createLogoutCookie()
createLogoutCookie(cfg) ==
  [name |-> cfg.cookieName, value |-> << >>,
   options |-> [maxAge |-> 0, path |-> <<"/">>,
                httpOnly |-> cookieHttpOnly, secure |-> cfg.cookieSecure,
                sameSite |-> cfg.cookieSameSite]]

\* variant: the cookie is written as a bare value, without its name
formatSetCookieHeaderNameless(cookie) ==
  Join(<<cookie.value, <<"Path", "=">> \o cookie.options.path>>, <<";", " ">>)

\* formatSetCookieHeader(): an attribute is written if its option is truthy
formatSetCookieHeader(cookie) ==
  LET options == cookie.options IN
  Join(<<cookie.name \o <<"=">> \o cookie.value>>
         \o (IF options.maxAge # 0 THEN << <<"Max-Age", "=">> \o NumberToString(options.maxAge) >> ELSE << >>)
         \o (IF options.path # << >> THEN << <<"Path", "=">> \o options.path >> ELSE << >>)
         \o (IF options.httpOnly THEN << <<"HttpOnly">> >> ELSE << >>)
         \o (IF options.secure THEN << <<"Secure">> >> ELSE << >>)
         \o (IF options.sameSite # << >> THEN << <<"SameSite", "=">> \o options.sameSite >> ELSE << >>),
       <<";", " ">>)

\* the cookies of a header: cookieHeader.split(';').map((c) => c.trim())
cookiesOf(cookieHeader) ==
  LET parts == Split(cookieHeader, ";") IN [i \in 1..Len(parts) |-> Trim(parts[i])]

\* parseSessionIdFromCookie() of the session module: the value of the first
\* cookie whose name is sessionConfig.cookieName, null if that value is empty
parseSessionIdFromCookie(cookieHeader, cfg) ==
  IF cookieHeader = << >> THEN Null
  ELSE LET cookies == cookiesOf(cookieHeader)
           nameOf(c) == Split(c, "=")[1]
           valueOf(c) == Join(Tail(Split(c, "=")), <<"=">>)
           hits == {i \in 1..Len(cookies) : nameOf(cookies[i]) = cfg.cookieName}
       IN IF hits = {} THEN Null
          ELSE LET i == CHOOSE j \in hits : \A k \in hits : j <= k
               IN IF valueOf(cookies[i]) = << >> THEN Null ELSE valueOf(cookies[i])

\* parseSessionIdFromCookie() of the session middleware: what follows
\* 'auth-session=' in the first cookie that starts with it
middlewareParseSessionIdFromCookie(cookieHeader) ==
  IF cookieHeader = << >> THEN Null
  ELSE LET cookies == cookiesOf(cookieHeader)
           hits == {i \in 1..Len(cookies) : StartsWith(cookies[i], <<"auth-session", "=">>)}
       IN IF hits = {} THEN Null
          ELSE LET i == CHOOSE j \in hits : \A k \in hits : j <= k
               IN SubSeq(cookies[i], 3, Len(cookies[i]))

\* what generateSessionId() writes: sess_<Date.now()>_<random, base 36>
isGeneratedSessionId(s) ==
  /\ Len(s) >= 4
  /\ s[1] = "sess" /\ s[2] = "_" /\ s[3] = "1"
  /\ \E u \in 4..Len(s) :
       /\ s[u] = "_"
       /\ \A k \in 4..(u - 1) : s[k] = "1"
       /\ \A k \in (u + 1)..Len(s) : s[k] = "1"

\* the ids generateSessionId() can write with at most n characters

TokenInit ==
  /\ token = NoToken
  /\ expiresAt = NoExpiry
  /\ refreshPromise = NoPromise
  /\ promise = [x \in Slots |-> BlankPromise]
  /\ xreq = [x \in Slots |-> BlankXreq]
  /\ exchangeCalls = 0
  /\ answered = 0
  /\ call = [p \in Callers |-> BlankCall]

SessionInit ==
  /\ sessions = {}
  /\ obj = [i \in SessionIds |-> BlankObj]
  /\ unused = SessionIds
  /\ removed = {}
  /\ expired = {}
  /\ input = [i \in SessionIds |-> BlankInput]
  /\ refreshed = {}
  /\ proc = [p \in Procs |-> BlankProc]

GatewayInit ==
  /\ req = [r \in Reqs |-> BlankReq]
  /\ codec = BlankCodec
  /\ boot = [pc |-> "prepare", result |-> "none", cause |-> "none", deadline |-> NoExpiry,
             listening |-> FALSE, served |-> 0]

Init ==
  /\ now = 0
  /\ ticks = 0
  /\ TokenInit
  /\ SessionInit
  /\ GatewayInit

\* ------------------------------------------------------------------------
\* getToken(), from its call to its first await (or its return)
\* ------------------------------------------------------------------------
GetTokenSync(p, url) ==
  LET branch == getTokenBranch(token, expiresAt, refreshPromise, now)
      base == [call[p] EXCEPT !.url = url]
  IN
  CASE branch = "cache" ->
         /\ call' = [call EXCEPT ![p] =
                       [base EXCEPT !.pc = "done", !.how = "cache", !.result = token,
                                    !.auth = authorizationHeader(token), !.sent = TRUE]]
         /\ UNCHANGED <<token, expiresAt, refreshPromise, promise, xreq, exchangeCalls, answered>>
    [] branch = "join" ->
         /\ call' = [call EXCEPT ![p] =
                       [base EXCEPT !.pc = "waiting", !.how = "join",
                                    !.awaiting = refreshPromise,
                                    !.xid = promise[refreshPromise].id]]
         /\ UNCHANGED <<token, expiresAt, refreshPromise, promise, xreq, exchangeCalls, answered>>
    [] branch = "start" ->
         /\ exchangeCalls < MaxExchanges
         /\ \E x \in Slots : promise[x].state = "free"
         /\ LET x == FreeSlot IN
            /\ promise' = [promise EXCEPT ![x] =
                             [state |-> "pending", value |-> None, exp |-> NoExpiry,
                              id |-> exchangeCalls + 1]]
            /\ xreq' = [xreq EXCEPT ![x] = [BlankXreq EXCEPT !.pc = "intercept"]]
            /\ refreshPromise' = x
            /\ exchangeCalls' = exchangeCalls + 1
            /\ call' = [call EXCEPT ![p] =
                          [base EXCEPT !.pc = "started", !.how = "start",
                                       !.awaiting = x, !.xid = exchangeCalls + 1]]
         /\ UNCHANGED <<token, expiresAt, answered>>

\* request interceptor, for a caller's request to url
Interceptor(p, url) ==
  /\ call[p].pc = "idle"
  /\ IF isTokenExchangeEndpoint(url)
     THEN /\ call' = [call EXCEPT ![p] = [@ EXCEPT !.url = url, !.pc = "done", !.how = "skip", !.sent = TRUE]]
          /\ UNCHANGED <<token, expiresAt, refreshPromise, promise, xreq, exchangeCalls, answered>>
     ELSE GetTokenSync(p, url)
  /\ UNCHANGED <<now, ticks>>
  /\ UNCHANGED <<sessVars, gwVars>>

\* request interceptor, for the exchange request refreshToken() posted
InterceptExchange(x) ==
  /\ xreq[x].pc = "intercept"
  /\ IF isTokenExchangeEndpoint(TokenExchangeUrl)
     THEN xreq' = [xreq EXCEPT ![x] = [@ EXCEPT !.pc = "sent"]]
     ELSE IF getTokenBranch(token, expiresAt, refreshPromise, now) = "cache"
          THEN xreq' = [xreq EXCEPT ![x] = [@ EXCEPT !.pc = "sent", !.auth = authorizationHeader(token)]]
          ELSE xreq' = [xreq EXCEPT ![x] = [@ EXCEPT !.pc = "waiting", !.awaiting = refreshPromise]]
  /\ UNCHANGED <<now, ticks, token, expiresAt, refreshPromise, promise, exchangeCalls, answered, call>>
  /\ UNCHANGED <<sessVars, gwVars>>

\* the backend answers 2xx: refreshToken() stores the pair and resolves
ExchangeSucceed(x, tv, life) ==
  /\ xreq[x].pc = "sent"
  /\ token' = tv
  /\ expiresAt' = now + life
  /\ promise' = [promise EXCEPT ![x] = [@ EXCEPT !.state = "fulfilled", !.value = tv, !.exp = now + life]]
  /\ xreq' = [xreq EXCEPT ![x] = BlankXreq]
  /\ answered' = answered + 1
  /\ UNCHANGED <<now, ticks, refreshPromise, exchangeCalls, call>>
  /\ UNCHANGED <<sessVars, gwVars>>

\* the backend answers with an error (or the call times out): refreshToken() rethrows
ExchangeFail(x) ==
  /\ xreq[x].pc = "sent"
  /\ token' = refreshTokenOnFailure(token, expiresAt)[1]
  /\ expiresAt' = refreshTokenOnFailure(token, expiresAt)[2]
  /\ promise' = [promise EXCEPT ![x] = [@ EXCEPT !.state = "rejected"]]
  /\ xreq' = [xreq EXCEPT ![x] = BlankXreq]
  /\ answered' = answered + 1
  /\ UNCHANGED <<now, ticks, refreshPromise, exchangeCalls, call>>
  /\ UNCHANGED <<sessVars, gwVars>>

\* what a caller's record becomes when the promise it awaits has settled
Completed(c) ==
  LET pr == promise[c.awaiting] IN
  IF pr.state = "fulfilled"
  THEN [c EXCEPT !.pc = "done", !.result = pr.value, !.awaiting = NoPromise,
                 !.auth = authorizationHeader(pr.value), !.sent = TRUE]
  ELSE [c EXCEPT !.pc = "done", !.result = Err, !.awaiting = NoPromise,
                 !.sent = interceptorSendsOnError]

\* getToken() of the caller that started the refresh: await returns, finally runs
StarterResume(p) ==
  /\ call[p].pc = "started"
  /\ Settled(call[p].awaiting)
  /\ refreshPromise' = refreshPromiseAfterFinally(refreshPromise)
  /\ call' = [call EXCEPT ![p] = Completed(call[p])]
  /\ promise' = Collect(promise, refreshPromise', call', xreq)
  /\ UNCHANGED <<now, ticks, token, expiresAt, xreq, exchangeCalls, answered>>
  /\ UNCHANGED <<sessVars, gwVars>>

\* getToken() of a caller that returned the shared promise
JoinerResume(p) ==
  /\ call[p].pc = "waiting"
  /\ Settled(call[p].awaiting)
  /\ call' = [call EXCEPT ![p] = Completed(call[p])]
  /\ promise' = Collect(promise, refreshPromise, call', xreq)
  /\ UNCHANGED <<now, ticks, token, expiresAt, refreshPromise, xreq, exchangeCalls, answered>>
  /\ UNCHANGED <<sessVars, gwVars>>

\* the caller's request is over; the slot can carry the next request
Return(p) ==
  /\ call[p].pc = "done"
  /\ call' = [call EXCEPT ![p] = BlankCall]
  /\ UNCHANGED <<now, ticks, token, expiresAt, refreshPromise, promise, xreq, exchangeCalls, answered>>
  /\ UNCHANGED <<sessVars, gwVars>>

\* clear()
Clear ==
  /\ token' = NoToken
  /\ expiresAt' = NoExpiry
  /\ refreshPromise' = refreshPromiseAfterClear(refreshPromise)
  /\ UNCHANGED <<now, ticks, promise, xreq, exchangeCalls, answered, call>>
  /\ UNCHANGED <<sessVars, gwVars>>

\* the clock advances
Tick(d) ==
  /\ ticks < MaxTicks
  /\ ~MicrotaskPending
  /\ now' = now + d
  /\ ticks' = ticks + 1
  /\ UNCHANGED <<tmVars, sessVars, gwVars>>

Next ==
  \/ \E p \in Callers : \E url \in RestUrls : Interceptor(p, url)
  \/ \E x \in Slots : InterceptExchange(x)
  \/ \E x \in Slots : \E tv \in TokenVals : \E life \in Lifetimes : ExchangeSucceed(x, tv, life)
  \/ \E x \in Slots : ExchangeFail(x)
  \/ \E p \in Callers : StarterResume(p)
  \/ \E p \in Callers : JoinerResume(p)
  \/ \E p \in Callers : Return(p)
  \/ Clear
  \/ \E d \in TickSteps : Tick(d)

Spec == Init /\ [][Next]_vars

\* ------------------------------------------------------------------------
\* SessionManager over MemorySessionStorage.  Each storage call is one atomic
\* step; the code after an await runs in a later step.  The Map holds
\* references: a request that fetched a session holds the object the Map
\* holds, so obj is shared by all of them.
\* ------------------------------------------------------------------------

\* getSession(): new Date() > session.userTokenExpiresAt
userTokenExpired(exp, t) == t > exp

\* MemorySessionStorage.get(): session || null
storageGet(sid) == IF sid \in sessions THEN sid ELSE NoSession

\* generateSessionId(): an id no session has had
generateSessionId == CHOOSE i \in unused : TRUE

\* variant: the record is built without the user token
\* variant: the record takes the token the token manager has cached
newSessionDataBearer(userId, userToken, userTokenExpiresAt, t) ==
  [userId |-> userId, userToken |-> token, userTokenExpiresAt |-> userTokenExpiresAt,
   createdAt |-> t, lastAccessedAt |-> t]

newSessionDataNoToken(userId, userToken, userTokenExpiresAt, t) ==
  [userId |-> userId, userToken |-> None, userTokenExpiresAt |-> userTokenExpiresAt,
   createdAt |-> t, lastAccessedAt |-> t]

\* createSession(): the SessionData literal, with now = new Date()
newSessionData(userId, userToken, userTokenExpiresAt, t) ==
  [userId |-> userId, userToken |-> userToken, userTokenExpiresAt |-> userTokenExpiresAt,
   createdAt |-> t, lastAccessedAt |-> t]

\* createSession(): build the record and save it
CreateSession(p, userId, userToken, life) ==
  /\ proc[p].pc = "idle"
  /\ unused # {}
  /\ obj' = [obj EXCEPT ![generateSessionId] = newSessionData(userId, userToken, now + life, now)]
  /\ input' = [input EXCEPT ![generateSessionId] =
                 [userId |-> userId, userToken |-> userToken,
                  userTokenExpiresAt |-> now + life, at |-> now]]
  /\ sessions' = sessions \cup {generateSessionId}
  /\ unused' = unused \ {generateSessionId}
  /\ proc' = [proc EXCEPT ![p] = [BlankProc EXCEPT !.pc = "done", !.op = "create",
                                                  !.sid = generateSessionId,
                                                  !.session = generateSessionId,
                                                  !.ret = generateSessionId]]
  /\ UNCHANGED <<now, ticks, removed, expired, refreshed>>
  /\ UNCHANGED <<tmVars, gwVars>>

\* getSession(): const session = await this.storage.get(sessionId)
GetSessionGet(p, sid) ==
  /\ proc[p].pc = "idle"
  /\ proc' = [proc EXCEPT ![p] = [BlankProc EXCEPT !.pc = "got", !.op = "get", !.sid = sid,
                                                  !.session = storageGet(sid),
                                                  !.afterRemoval = (sid \in removed),
                                                  !.afterExpiry = (sid \in expired)]]
  /\ UNCHANGED <<now, ticks, sessions, obj, unused, removed, expired, input, refreshed>>
  /\ UNCHANGED <<tmVars, gwVars>>

\* getSession(): the code after the await
GetSessionCheck(p) ==
  /\ proc[p].pc = "got"
  /\ proc[p].op = "get"
  /\ LET sid == proc[p].sid
         session == proc[p].session
     IN
     IF session = NoSession
     THEN /\ proc' = [proc EXCEPT ![p] = [@ EXCEPT !.pc = "done", !.ret = NoSession]]
          /\ UNCHANGED <<sessions, obj, removed, expired>>
     ELSE IF userTokenExpired(obj[session].userTokenExpiresAt, now)
     THEN /\ sessions' = sessions \ {sid}
          /\ removed' = removed \cup (sessions \cap {sid})
          /\ expired' = expired \cup (sessions \cap {sid})
          /\ proc' = [proc EXCEPT ![p] = [@ EXCEPT !.pc = "done", !.ret = NoSession]]
          /\ UNCHANGED obj
     ELSE /\ obj' = [obj EXCEPT ![session] = [@ EXCEPT !.lastAccessedAt = now]]
          /\ sessions' = sessions \cup {session}
          /\ proc' = [proc EXCEPT ![p] = [@ EXCEPT !.pc = "done", !.ret = session]]
          /\ UNCHANGED <<removed, expired>>
  /\ UNCHANGED <<now, ticks, unused, input, refreshed>>
  /\ UNCHANGED <<tmVars, gwVars>>

\* variant: the record is stamped as newly created as well
refreshUserTokenFieldsRestamped(session, newUserToken, userTokenExpiresAt, t) ==
  [session EXCEPT !.userToken = newUserToken,
                  !.userTokenExpiresAt = userTokenExpiresAt,
                  !.createdAt = t,
                  !.lastAccessedAt = t]

\* refreshUserToken(): the three assignments to the session object
refreshUserTokenFields(session, newUserToken, userTokenExpiresAt, t) ==
  [session EXCEPT !.userToken = newUserToken,
                  !.userTokenExpiresAt = userTokenExpiresAt,
                  !.lastAccessedAt = t]

\* refreshUserToken(): const session = await this.storage.get(sessionId)
RefreshUserTokenGet(p, sid, newUserToken, life) ==
  /\ proc[p].pc = "idle"
  /\ proc' = [proc EXCEPT ![p] = [BlankProc EXCEPT !.pc = "got", !.op = "refresh", !.sid = sid,
                                                  !.session = storageGet(sid),
                                                  !.newUserToken = newUserToken,
                                                  !.userTokenExpiresAt = now + life]]
  /\ UNCHANGED <<now, ticks, sessions, obj, unused, removed, expired, input, refreshed>>
  /\ UNCHANGED <<tmVars, gwVars>>

\* refreshUserToken(): the code after the await
RefreshUserTokenSave(p) ==
  /\ proc[p].pc = "got"
  /\ proc[p].op = "refresh"
  /\ LET session == proc[p].session IN
     IF session = NoSession
     THEN /\ proc' = [proc EXCEPT ![p] = [@ EXCEPT !.pc = "done", !.ret = NoSession]]
          /\ UNCHANGED <<sessions, obj, refreshed>>
     ELSE /\ obj' = [obj EXCEPT ![session] =
                       refreshUserTokenFields(@, proc[p].newUserToken,
                                              proc[p].userTokenExpiresAt, now)]
          /\ sessions' = sessions \cup {session}
          /\ refreshed' = refreshed \cup {session}
          /\ proc' = [proc EXCEPT ![p] = [@ EXCEPT !.pc = "done", !.ret = session]]
  /\ UNCHANGED <<now, ticks, unused, removed, expired, input>>
  /\ UNCHANGED <<tmVars, gwVars>>

\* deleteSession()
DeleteSession(p, sid) ==
  /\ proc[p].pc = "idle"
  /\ sessions' = sessions \ {sid}
  /\ removed' = removed \cup (sessions \cap {sid})
  /\ proc' = [proc EXCEPT ![p] = [BlankProc EXCEPT !.pc = "done", !.op = "delete", !.sid = sid]]
  /\ UNCHANGED <<now, ticks, obj, unused, expired, input, refreshed>>
  /\ UNCHANGED <<tmVars, gwVars>>

\* the request is over
SessionReturn(p) ==
  /\ proc[p].pc = "done"
  /\ proc' = [proc EXCEPT ![p] = BlankProc]
  /\ UNCHANGED <<now, ticks, sessions, obj, unused, removed, expired, input, refreshed>>
  /\ UNCHANGED <<tmVars, gwVars>>

\* the clock advances
SessionTick(d) ==
  /\ ticks < MaxTicks
  /\ now' = now + d
  /\ ticks' = ticks + 1
  /\ UNCHANGED <<tmVars, sessVars, gwVars>>

SessionNext ==
  \/ \E p \in Procs : \E u \in UserIds : \E t \in UserTokens : \E life \in SessionLifetimes :
       CreateSession(p, u, t, life)
  \/ \E p \in Procs : \E sid \in SessionIds : GetSessionGet(p, sid)
  \/ \E p \in Procs : GetSessionCheck(p)
  \/ \E p \in Procs : \E sid \in SessionIds : \E t \in UserTokens : \E life \in SessionLifetimes :
       RefreshUserTokenGet(p, sid, t, life)
  \/ \E p \in Procs : RefreshUserTokenSave(p)
  \/ \E p \in Procs : \E sid \in SessionIds : DeleteSession(p, sid)
  \/ \E p \in Procs : SessionReturn(p)
  \/ \E d \in SessionTickSteps : SessionTick(d)

SessionSpec == Init /\ [][SessionNext]_vars

\* ------------------------------------------------------------------------
\* The Express server: sessionMiddleware, POST /api/auth/login,
\* POST /api/auth/logout and POST /api/graphql.  tokenManager.getToken(),
\* authClient.login(), the revoke call and the fetch of the backend GraphQL
\* endpoint are awaited calls that settle with one of their outcomes.
\* ------------------------------------------------------------------------
Routes == {"login", "logout", "graphql"}
\* with GET /api/auth/me and POST /api/auth/request-password-reset

\* the text of a session id in a cookie, and the store key a text stands for
sessionIdString(sid) == <<"sess", "_", "1", "_", "1">>
storeKey(text) ==
  IF \E i \in SessionIds : sessionIdString(i) = text
  THEN CHOOSE i \in SessionIds : sessionIdString(i) = text
  ELSE NoSession

\* request inputs
CookieHeaders == {<< >>, <<"auth-session", "=">> \o sessionIdString("sess_1")}
\* login bodies: well-formed, no email, an email without '@', a password of 7
\* characters, no password
GoodEmail == <<"u", "@", "x">>
GoodPassword == [i \in 1..8 |-> "p"]
LoginBodies ==
  { [email |-> GoodEmail, password |-> GoodPassword, query |-> FALSE],
    [email |-> Null, password |-> GoodPassword, query |-> FALSE],
    [email |-> <<"u">>, password |-> GoodPassword, query |-> FALSE],
    [email |-> GoodEmail, password |-> [i \in 1..7 |-> "p"], query |-> FALSE],
    [email |-> GoodEmail, password |-> Null, query |-> FALSE] }
GraphqlBodies == [email : {<< >>}, password : {<< >>}, query : BOOLEAN]
\* password-reset bodies: an email, an email without '@', no email
Bodies(route) ==
  IF route = "login" THEN LoginBodies
  ELSE IF route = "graphql" THEN GraphqlBodies
  ELSE IF route = "reset"
       THEN [email : {GoodEmail, <<"u">>, Null}, password : {<< >>}, query : {FALSE}]
  ELSE {NoBody}

\* outcomes of the awaited calls: the LoginError classes
LoginErrors == {"InvalidCredentialsError", "InvalidEmailError", "InvalidPasswordError",
                "TooManyLoginAttemptsError", "InternalServerErrorException"}
RevokeOutcomes == {"ok", "backend", "noBearer"}

\* the error a backend call rejects with, as mapBackendErrorToServiceException()
\* reads it: the HTTP status (0: the error carries none) and the words of
\* its message the mapping looks for
GatewayBackendErrors ==
  { [status |-> 400, words |-> {"email"}], [status |-> 400, words |-> {"password"}],
    [status |-> 401, words |-> {}], [status |-> 429, words |-> {}],
    [status |-> 500, words |-> {}] }
BackendErrors ==
  GatewayBackendErrors \cup
  { [status |-> 400, words |-> {}], [status |-> 400, words |-> {"email", "password"}],
    [status |-> 401, words |-> {"token"}], [status |-> 401, words |-> {"session"}],
    [status |-> 401, words |-> {"expired"}], [status |-> 403, words |-> {}],
    [status |-> 404, words |-> {}], [status |-> 0, words |-> {}] }

\* mapBackendErrorToServiceException(): the class of the exception
mapBackendErrorToServiceException(error) ==
  CASE error.status = 400 ->
         IF "email" \in error.words THEN "InvalidEmailError"
         ELSE IF "password" \in error.words THEN "InvalidPasswordError"
         ELSE "InvalidCredentialsError"
    [] error.status = 401 ->
         IF "token" \in error.words THEN "TokenInvalidError"
         ELSE IF "session" \in error.words THEN "SessionInvalidError"
         ELSE IF "expired" \in error.words THEN "TokenExpiredError"
         ELSE "InvalidCredentialsError"
    [] error.status = 403 ->
         IF "tenant" \in error.words THEN "TenantAccessDeniedError"
         ELSE "InsufficientPermissionsError"
    [] error.status = 404 -> "UserNotFoundError"
    [] error.status = 409 ->
         IF "email" \in error.words THEN "EmailAlreadyExistsError" ELSE "Error"
    [] error.status = 429 -> "TooManyLoginAttemptsError"
    [] OTHER -> "Error"

\* AuthClient.login(), catch branch: the LoginError it returns
loginError(error) ==
  LET serviceError == mapBackendErrorToServiceException(error) IN
  IF serviceError \in LoginErrors \ {"InternalServerErrorException"}
  THEN serviceError
  ELSE "InternalServerErrorException"

\* AuthClient.requestPasswordReset(), catch branch
requestPasswordResetError(error) ==
  LET serviceError == mapBackendErrorToServiceException(error) IN
  IF serviceError \in {"InvalidEmailError", "UserNotFoundError"}
  THEN serviceError
  ELSE "InternalServerErrorException"
BackendAnswers == {"data", "authError", "httpError"}

\* the JWTs the tokens stand for: header.payload.signature; the tenant's own
\* tokens carry tenant 1, user token U2 was issued for tenant 2
\* a payload segment says whether it decodes to JSON and which claims it has.
\* U3 has two segments only, the payload of U4 and T4 does not decode, U5
\* has no tenantId claim, U6 and T6 carry tenantId 0
AllUserTokens == UserTokens \cup {"U3", "U4", "U5", "U6"}
AllBearerTokens == TokenVals \cup {"T4", "T6"}
jwtParts(tok) ==
  CASE tok \in {"T1", "T2", "U1"} ->
         <<"header", [json |-> TRUE, claims |-> [tenantId |-> 1]], "signature">>
    [] tok = "U2" -> <<"header", [json |-> TRUE, claims |-> [tenantId |-> 2]], "signature">>
    [] tok = "U3" -> <<"header", [json |-> TRUE, claims |-> [tenantId |-> 1]]>>
    [] tok \in {"U4", "T4"} -> <<"header", [json |-> FALSE, claims |-> [sub |-> 0]], "signature">>
    [] tok = "U5" -> <<"header", [json |-> TRUE, claims |-> [sub |-> 7]], "signature">>
    [] tok \in {"U6", "T6"} ->
         <<"header", [json |-> TRUE, claims |-> [tenantId |-> 0]], "signature">>
    [] OTHER -> <<tok>>

\* variant: a token without a readable tenantId counts as tenant 1
extractTenantIdFromTokenDefaults(tok) ==
  LET parts == jwtParts(tok) IN
  IF Len(parts) # 3 THEN 1
  ELSE IF ~parts[2].json THEN 1
  ELSE IF "tenantId" \notin DOMAIN parts[2].claims THEN 1
  ELSE parts[2].claims.tenantId

\* extractTenantIdFromToken(): payload.tenantId || null, null written 0; a
\* payload that does not decode throws, and the catch returns null
extractTenantIdFromToken(tok) ==
  LET parts == jwtParts(tok) IN
  IF Len(parts) # 3 THEN 0
  ELSE IF ~parts[2].json THEN 0
  ELSE IF "tenantId" \notin DOMAIN parts[2].claims THEN 0
  ELSE parts[2].claims.tenantId

\* variant: only the presence of the two claims is tested
validateTenantConsistencyPresence(bearerToken, userToken) ==
  extractTenantIdFromToken(bearerToken) # 0 /\ extractTenantIdFromToken(userToken) # 0

\* validateTenantConsistency()
validateTenantConsistency(bearerToken, userToken) ==
  LET bearerTenantId == extractTenantIdFromToken(bearerToken)
      userTenantId == extractTenantIdFromToken(userToken)
  IN IF bearerTenantId = 0 \/ userTenantId = 0 THEN FALSE
     ELSE bearerTenantId = userTenantId

\* variant: the '@' test of the email is left out
validateLoginRequestNoAt(body) ==
  IF body.email = Null \/ body.email = << >>
  THEN [valid |-> FALSE, error |-> "Valid email is required"]
  ELSE IF body.password = Null \/ body.password = << >> \/ Len(body.password) < 8
  THEN [valid |-> FALSE, error |-> "Password must be at least 8 characters"]
  ELSE [valid |-> TRUE, error |-> "none"]

\* validateLoginRequest(), for a body that is an object
validateLoginRequest(body) ==
  IF body.email = Null \/ body.email = << >> \/ ~(\E i \in 1..Len(body.email) : body.email[i] = "@")
  THEN [valid |-> FALSE, error |-> "Valid email is required"]
  ELSE IF body.password = Null \/ body.password = << >> \/ Len(body.password) < 8
  THEN [valid |-> FALSE, error |-> "Password must be at least 8 characters"]
  ELSE [valid |-> TRUE, error |-> "none"]

\* handleLoginError()
handleLoginError(error) ==
  CASE error = "InvalidCredentialsError" ->
         [statusCode |-> 401, message |-> "Invalid email or password"]
    [] error = "InvalidEmailError" ->
         [statusCode |-> 400, message |-> "Valid email is required"]
    [] error = "InvalidPasswordError" ->
         [statusCode |-> 400, message |-> "Password must be at least 8 characters"]
    [] error = "TooManyLoginAttemptsError" ->
         [statusCode |-> 429, message |-> "Too many login attempts. Please try again later"]
    [] OTHER ->
         [statusCode |-> 500, message |-> "An unexpected error occurred. Please try again"]

\* res.json() writes numbers and dates as text

\* variant: the login response hands the user token to the client
loginResponseBodyWithToken(loginResponse, sessionId) ==
  <<"success", ToString(loginResponse.user), sessionId, loginResponse.token>>

\* POST /login: the LoginResponseBody, the values it carries
loginResponseBody(loginResponse, sessionId) ==
  <<"success", ToString(loginResponse.user), sessionId>>

\* GET /me: the MeResponseBody, the values it carries
meResponseBody(session, sessionId) ==
  <<"success", ToString(session.userId), sessionId,
    ToString(session.createdAt), ToString(session.userTokenExpiresAt),
    ToString(session.lastAccessedAt)>>

\* variant: an unknown account is reported as not found
resetErrorResponseReveals(error) ==
  IF error = "UserNotFoundError"
  THEN [statusCode |-> 404, body |-> <<"failure", "User not found">>]
  ELSE [statusCode |-> 500,
        body |-> <<"failure", "An unexpected error occurred. Please try again">>]

\* POST /request-password-reset, !resetResult.ok
resetErrorResponse(error) ==
  IF error = "UserNotFoundError"
  THEN [statusCode |-> 200,
        body |-> <<"success", "If an account exists with that email, you will receive a password reset link.">>]
  ELSE [statusCode |-> 500,
        body |-> <<"failure", "An unexpected error occurred. Please try again">>]

\* new Date(loginResponse.expiresAt): the instant an ISO string names
newDate(iso) == iso[2]

\* getSession(), the code after its await, for the object storage.get() gave:
\* the store it leaves and the session it returns
getSessionTail(session) ==
  IF session = NoSession
  THEN [sessions |-> sessions, obj |-> obj, ret |-> NoSession]
  ELSE IF userTokenExpired(obj[session].userTokenExpiresAt, now)
  THEN [sessions |-> sessions \ {session}, obj |-> obj, ret |-> NoSession]
  ELSE [sessions |-> sessions \cup {session},
        obj |-> [obj EXCEPT ![session] = [@ EXCEPT !.lastAccessedAt = now]],
        ret |-> session]

\* a SessionData object that is neither in the Map nor held by a request is
\* garbage
Reachable(objs, keys, rq) ==
  [i \in SessionIds |->
     IF i \notin keys /\ \A r \in Reqs : rq[r].session # i THEN BlankObj ELSE objs[i]]

\* variant: logout goes on without a session id
hasSessionIdAlways(sessionId) == TRUE

\* the handlers' test of req.sessionId
hasSessionId(sessionId) == sessionId # NoSession

\* variant: a failed revocation ends the logout in the outer catch
afterRevokeRethrows(outcome) == IF outcome = "ok" THEN "delete" ELSE "error"

\* logout: the inner catch swallows the error of the revoke call
afterRevoke(outcome) == "delete"

\* logout: createSessionCookie('') with value '' and maxAge 0
routeLogoutCookie(cfg) ==
  LET sessionCookieOptions == createSessionCookie(<< >>, cfg) IN
  [name |-> sessionCookieOptions.name, value |-> << >>,
   options |-> [sessionCookieOptions.options EXCEPT !.maxAge = 0]]

NoTokens == [bearerToken |-> None, userToken |-> None]

\* variant: the failure of getToken() is passed on as the token
extractAuthTokensOnErrorKeeps == [bearerToken |-> Err, userToken |-> None]

\* extractAuthTokens(), catch of getToken(): return null
extractAuthTokensOnError == NoTokens

\* variant: the user token is left out of the forwarded headers
forwardHeadersBearerOnly(tokens) ==
  [authorization |-> authorizationHeader(tokens.bearerToken), xUserToken |-> None]

\* the headers of the backend request
forwardHeaders(tokens) ==
  [authorization |-> authorizationHeader(tokens.bearerToken),
   xUserToken |-> tokens.userToken]

\* POST /api/graphql from the return of extractAuthTokens() to the fetch:
\* the status and error code of an early answer, or status 0 and the headers
proxyDecision(tokens, body) ==
  IF tokens = NoTokens
  THEN [status |-> 401, code |-> "UNAUTHENTICATED", fwd |-> NoFwd]
  ELSE IF tokens.userToken # None /\ ~validateTenantConsistency(tokens.bearerToken, tokens.userToken)
  THEN [status |-> 401, code |-> "UNAUTHENTICATED", fwd |-> NoFwd]
  ELSE IF ~body.query
  THEN [status |-> 400, code |-> "BAD_REQUEST", fwd |-> NoFwd]
  ELSE [status |-> 0, code |-> "none", fwd |-> forwardHeaders(tokens)]

\* res.status(status).json(body), with the Set-Cookie header set before
Respond(q, status, body, cookie) ==
  [q EXCEPT !.pc = "done", !.status = status, !.resBody = body, !.setCookie = cookie]

\* the request after the proxy has decided
Decided(q, tokens) ==
  LET d == proxyDecision(tokens, q.body)
      q1 == [q EXCEPT !.bearerToken = tokens.bearerToken, !.userToken = tokens.userToken]
  IN IF tokens = NoTokens
     THEN Respond(q, d.status, <<"errors", d.code>>, << >>)
     ELSE IF d.status = 0
     THEN [q1 EXCEPT !.pc = "fetchWait", !.fwd = d.fwd, !.fetched = TRUE]
     ELSE Respond(q1, d.status, <<"errors", d.code>>, << >>)

\* removed, expired, input and refreshed are the history the properties of
\* SessionSpec read; the server's requests are followed in req
history == <<removed, expired, input, refreshed>>

StoreUnchanged == UNCHANGED <<sessions, obj, unused, history>>

ApplyTail(t) ==
  /\ sessions' = t.sessions
  /\ obj' = Reachable(t.obj, sessions', req')
  /\ UNCHANGED <<unused, history>>

\* deleteSession(sid) on the store getSession() left
DeleteAfter(t, sid) ==
  /\ sessions' = t.sessions \ {sid}
  /\ obj' = Reachable(t.obj, sessions', req')
  /\ UNCHANGED <<unused, history>>

LogoutResponse(q) ==
  Respond(q, 200, <<"success", "Logged out successfully">>,
          formatSetCookieHeader(routeLogoutCookie(DefaultSessionConfig)))

\* the slot a new request is given
FirstIdle == IF req["r1"].pc = "idle" THEN "r1" ELSE "r2"

\* a request arrives: sessionMiddleware parses the cookie and, with a session
\* id, calls validateSession(), which runs getSession() up to its await
Arrive(r, route, cookie, body) ==
  /\ req[r].pc = "idle"
  /\ r = FirstIdle
  /\ LET sessionId == middlewareParseSessionIdFromCookie(cookie)
         q == [BlankReq EXCEPT !.route = route, !.cookie = cookie, !.body = body]
     IN IF sessionId = Null \/ sessionId = << >>
        THEN req' = [req EXCEPT ![r] = [q EXCEPT !.pc = "handler"]]
        ELSE req' = [req EXCEPT ![r] = [q EXCEPT !.pc = "mwCheck",
                                                 !.session = storageGet(storeKey(sessionId))]]
  /\ StoreUnchanged
  /\ UNCHANGED <<now, ticks, proc, codec, boot>>
  /\ UNCHANGED tmVars

\* sessionMiddleware: getSession() after its await, then req.sessionId is set
\* if the session is valid, then next()
MwCheck(r) ==
  /\ req[r].pc = "mwCheck"
  /\ LET t == getSessionTail(req[r].session) IN
     /\ req' = [req EXCEPT ![r] = [@ EXCEPT !.pc = "handler", !.sessionId = t.ret,
                                            !.session = NoSession]]
     /\ ApplyTail(t)
  /\ UNCHANGED <<now, ticks, proc, codec, boot>>
  /\ UNCHANGED tmVars

\* POST /login up to the await of authClient.login()
LoginStart(r) ==
  /\ req[r].pc = "handler"
  /\ req[r].route = "login"
  /\ LET validation == validateLoginRequest(req[r].body) IN
     IF ~validation.valid
     THEN req' = [req EXCEPT ![r] = Respond(@, 400, <<"failure", validation.error>>, << >>)]
     ELSE req' = [req EXCEPT ![r] = [@ EXCEPT !.pc = "loginWait", !.sentLogin = TRUE]]
  /\ StoreUnchanged
  /\ UNCHANGED <<now, ticks, proc, codec, boot>>
  /\ UNCHANGED tmVars

\* the backend accepted the login: createSession(), session cookie, 200
LoginOk(r, userId, tok, life) ==
  /\ req[r].pc = "loginWait"
  /\ unused # {}
  /\ LET loginResponse == [token |-> tok, expiresAt |-> <<"iso", now + life>>, user |-> userId]
         id == generateSessionId
     IN
     /\ obj' = [obj EXCEPT ![id] =
                  newSessionData(loginResponse.user, loginResponse.token,
                                 newDate(loginResponse.expiresAt), now)]
     /\ sessions' = sessions \cup {id}
     /\ unused' = unused \ {id}
     /\ req' = [req EXCEPT ![r] =
                  Respond([@ EXCEPT !.loginResponse = loginResponse, !.upstream = "ok"], 200,
                          loginResponseBody(loginResponse, id),
                          formatSetCookieHeader(
                            createSessionCookie(sessionIdString(id), DefaultSessionConfig)))]
  /\ UNCHANGED history
  /\ UNCHANGED <<now, ticks, proc, codec, boot>>
  /\ UNCHANGED tmVars

\* the login failed at the backend: login() maps the error, handleLoginError()
\* gives the status and the message
LoginErr(r, error) ==
  /\ req[r].pc = "loginWait"
  /\ LET h == handleLoginError(loginError(error)) IN
     req' = [req EXCEPT ![r] =
               Respond([@ EXCEPT !.upstream = "error", !.backendError = error],
                       h.statusCode, <<"failure", h.message>>, << >>)]
  /\ StoreUnchanged
  /\ UNCHANGED <<now, ticks, proc, codec, boot>>
  /\ UNCHANGED tmVars

\* POST /logout up to the await in getSession()
LogoutStart(r) ==
  /\ req[r].pc = "handler"
  /\ req[r].route = "logout"
  /\ IF ~hasSessionId(req[r].sessionId)
     THEN req' = [req EXCEPT ![r] = Respond(@, 401, <<"failure", "No active session">>, << >>)]
     ELSE req' = [req EXCEPT ![r] = [@ EXCEPT !.pc = "logoutCheck",
                                             !.session = storageGet(req[r].sessionId)]]
  /\ StoreUnchanged
  /\ UNCHANGED <<now, ticks, proc, codec, boot>>
  /\ UNCHANGED tmVars

\* POST /logout: getSession() after its await; with a session the revoke call
\* is made, without one deleteSession() follows at once
LogoutCheck(r) ==
  /\ req[r].pc = "logoutCheck"
  /\ LET t == getSessionTail(req[r].session) IN
     IF t.ret = NoSession
     THEN /\ req' = [req EXCEPT ![r] = LogoutResponse([@ EXCEPT !.session = NoSession])]
          /\ DeleteAfter(t, req[r].sessionId)
     ELSE /\ req' = [req EXCEPT ![r] = [@ EXCEPT !.pc = "revokeWait", !.session = NoSession,
                                                 !.userToken = t.obj[t.ret].userToken]]
          /\ ApplyTail(t)
  /\ UNCHANGED <<now, ticks, proc, codec, boot>>
  /\ UNCHANGED tmVars

\* POST /logout: the revoke call settles; deleteSession(), logout cookie, 200
RevokeSettles(r, outcome) ==
  /\ req[r].pc = "revokeWait"
  /\ IF afterRevoke(outcome) = "delete"
     THEN /\ sessions' = sessions \ {req[r].sessionId}
          /\ req' = [req EXCEPT ![r] = LogoutResponse([@ EXCEPT !.revoke = outcome])]
          /\ obj' = Reachable(obj, sessions', req')
     ELSE /\ req' = [req EXCEPT ![r] =
                       Respond([@ EXCEPT !.revoke = outcome], 500,
                               <<"failure", "An unexpected error occurred during logout">>, << >>)]
          /\ UNCHANGED <<sessions, obj>>
  /\ UNCHANGED <<unused, history>>
  /\ UNCHANGED <<now, ticks, proc, codec, boot>>
  /\ UNCHANGED tmVars

\* POST /graphql up to the await of tokenManager.getToken()
GqlStart(r) ==
  /\ req[r].pc = "handler"
  /\ req[r].route = "graphql"
  /\ req' = [req EXCEPT ![r] = [@ EXCEPT !.pc = "tokenWait"]]
  /\ StoreUnchanged
  /\ UNCHANGED <<now, ticks, proc, codec, boot>>
  /\ UNCHANGED tmVars

\* getToken() gave a token: with a session id getSession() runs up to its
\* await, without one the proxy decides
GqlTokenOk(r, tv) ==
  /\ req[r].pc = "tokenWait"
  /\ IF req[r].sessionId # NoSession
     THEN req' = [req EXCEPT ![r] = [@ EXCEPT !.pc = "gqlCheck", !.bearerToken = tv,
                                             !.session = storageGet(req[r].sessionId)]]
     ELSE req' = [req EXCEPT ![r] = Decided(@, [bearerToken |-> tv, userToken |-> None])]
  /\ StoreUnchanged
  /\ UNCHANGED <<now, ticks, proc, codec, boot>>
  /\ UNCHANGED tmVars

\* getToken() threw
GqlTokenFail(r) ==
  /\ req[r].pc = "tokenWait"
  /\ req' = [req EXCEPT ![r] = Decided([@ EXCEPT !.bearerToken = Err], extractAuthTokensOnError)]
  /\ StoreUnchanged
  /\ UNCHANGED <<now, ticks, proc, codec, boot>>
  /\ UNCHANGED tmVars

\* extractAuthTokens(): getSession() after its await, then the proxy decides
GqlCheck(r) ==
  /\ req[r].pc = "gqlCheck"
  /\ LET t == getSessionTail(req[r].session) IN
     /\ req' = [req EXCEPT ![r] =
                  Decided([@ EXCEPT !.session = NoSession],
                          [bearerToken |-> req[r].bearerToken,
                           userToken |-> IF t.ret # NoSession
                                         THEN t.obj[t.ret].userToken ELSE None])]
     /\ ApplyTail(t)
  /\ UNCHANGED <<now, ticks, proc, codec, boot>>
  /\ UNCHANGED tmVars

\* the backend GraphQL endpoint answered
GqlAnswer(r, answer) ==
  /\ req[r].pc = "fetchWait"
  /\ req' = [req EXCEPT ![r] =
               CASE answer = "authError" -> Respond(@, 401, <<"errors", "UNAUTHENTICATED">>, << >>)
                 [] answer = "httpError" -> Respond(@, 500, <<"errors", "INTERNAL_SERVER_ERROR">>, << >>)
                 [] OTHER -> Respond(@, 200, <<"data">>, << >>)]
  /\ StoreUnchanged
  /\ UNCHANGED <<now, ticks, proc, codec, boot>>
  /\ UNCHANGED tmVars

\* GET /me up to the await in getSession()
MeStart(r) ==
  /\ req[r].pc = "handler"
  /\ req[r].route = "me"
  /\ IF ~hasSessionId(req[r].sessionId)
     THEN req' = [req EXCEPT ![r] = Respond(@, 401, <<"failure", "Unauthorized">>, << >>)]
     ELSE req' = [req EXCEPT ![r] = [@ EXCEPT !.pc = "meCheck",
                                             !.session = storageGet(req[r].sessionId)]]
  /\ StoreUnchanged
  /\ UNCHANGED <<now, ticks, proc, codec, boot>>
  /\ UNCHANGED tmVars

\* GET /me: getSession() after its await, then the answer
MeCheck(r) ==
  /\ req[r].pc = "meCheck"
  /\ LET t == getSessionTail(req[r].session) IN
     /\ req' = [req EXCEPT ![r] =
                  IF t.ret = NoSession
                  THEN Respond([@ EXCEPT !.session = NoSession], 401,
                               <<"failure", "Session not found">>, << >>)
                  ELSE Respond([@ EXCEPT !.session = NoSession], 200,
                               meResponseBody(t.obj[t.ret], t.ret), << >>)]
     /\ ApplyTail(t)
  /\ UNCHANGED <<now, ticks, proc, codec, boot>>
  /\ UNCHANGED tmVars

\* POST /request-password-reset up to the await of requestPasswordReset()
ResetStart(r) ==
  /\ req[r].pc = "handler"
  /\ req[r].route = "reset"
  /\ LET email == req[r].body.email IN
     IF email = Null \/ email = << >> \/ ~(\E i \in 1..Len(email) : email[i] = "@")
     THEN req' = [req EXCEPT ![r] = Respond(@, 400, <<"failure", "Valid email is required">>, << >>)]
     ELSE req' = [req EXCEPT ![r] = [@ EXCEPT !.pc = "resetWait"]]
  /\ StoreUnchanged
  /\ UNCHANGED <<now, ticks, proc, codec, boot>>
  /\ UNCHANGED tmVars

\* the backend knows the account: the reset email is sent next
ResetFound(r) ==
  /\ req[r].pc = "resetWait"
  /\ req' = [req EXCEPT ![r] = [@ EXCEPT !.pc = "mailWait", !.upstream = "ok"]]
  /\ StoreUnchanged
  /\ UNCHANGED <<now, ticks, proc, codec, boot>>
  /\ UNCHANGED tmVars

\* the backend call failed (404: no account for the email)
ResetErr(r, error) ==
  /\ req[r].pc = "resetWait"
  /\ LET h == resetErrorResponse(requestPasswordResetError(error)) IN
     req' = [req EXCEPT ![r] =
               Respond([@ EXCEPT !.upstream = "error", !.backendError = error],
                       h.statusCode, h.body, << >>)]
  /\ StoreUnchanged
  /\ UNCHANGED <<now, ticks, proc, codec, boot>>
  /\ UNCHANGED tmVars

\* sendPasswordResetEmail() settles, with ok, with an error result, or by throwing
MailSettles(r, outcome) ==
  /\ req[r].pc = "mailWait"
  /\ req' = [req EXCEPT ![r] =
               Respond([@ EXCEPT !.mail = outcome], 200,
                       <<"success", "If an account exists with that email, you will receive a password reset link.">>,
                       << >>)]
  /\ StoreUnchanged
  /\ UNCHANGED <<now, ticks, proc, codec, boot>>
  /\ UNCHANGED tmVars

\* the response is out; the slot can carry the next request
Finish(r) ==
  /\ req[r].pc = "done"
  /\ req' = [req EXCEPT ![r] = BlankReq]
  /\ StoreUnchanged
  /\ UNCHANGED <<now, ticks, proc, codec, boot>>
  /\ UNCHANGED tmVars

GatewayNext ==
  \/ \E r \in Reqs : \E route \in Routes : \E cookie \in CookieHeaders : \E body \in Bodies(route) :
       Arrive(r, route, cookie, body)
  \/ \E r \in Reqs : MwCheck(r)
  \/ \E r \in Reqs : LoginStart(r)
  \/ \E r \in Reqs : \E u \in UserIds : \E t \in UserTokens : \E life \in SessionLifetimes :
       LoginOk(r, u, t, life)
  \/ \E r \in Reqs : \E e \in GatewayBackendErrors : LoginErr(r, e)
  \/ \E r \in Reqs : LogoutStart(r)
  \/ \E r \in Reqs : LogoutCheck(r)
  \/ \E r \in Reqs : \E o \in RevokeOutcomes : RevokeSettles(r, o)
  \/ \E r \in Reqs : GqlStart(r)
  \/ \E r \in Reqs : \E tv \in TokenVals : GqlTokenOk(r, tv)
  \/ \E r \in Reqs : GqlTokenFail(r)
  \/ \E r \in Reqs : GqlCheck(r)
  \/ \E r \in Reqs : \E a \in BackendAnswers : GqlAnswer(r, a)
  \/ \E r \in Reqs : Finish(r)
  \/ \E d \in SessionTickSteps : SessionTick(d)

GatewaySpec == Init /\ [][GatewayNext]_vars

\* the server with one request at a time, over the whole range of routes,
\* bodies, tokens and backend errors
RequestNext ==
  \/ \E route \in Routes \cup {"me", "reset"} : \E cookie \in CookieHeaders : \E body \in Bodies(route) :
       Arrive("r1", route, cookie, body)
  \/ MwCheck("r1")
  \/ LoginStart("r1")
  \/ \E u \in UserIds : \E t \in AllUserTokens : \E life \in SessionLifetimes :
       LoginOk("r1", u, t, life)
  \/ \E e \in BackendErrors : LoginErr("r1", e)
  \/ LogoutStart("r1")
  \/ LogoutCheck("r1")
  \/ \E o \in RevokeOutcomes : RevokeSettles("r1", o)
  \/ GqlStart("r1")
  \/ \E tv \in AllBearerTokens : GqlTokenOk("r1", tv)
  \/ GqlTokenFail("r1")
  \/ GqlCheck("r1")
  \/ \E a \in BackendAnswers : GqlAnswer("r1", a)
  \/ MeStart("r1")
  \/ MeCheck("r1")
  \/ ResetStart("r1")
  \/ ResetFound("r1")
  \/ \E e \in BackendErrors : ResetErr("r1", e)
  \/ \E o \in {"sent", "failed", "threw"} : MailSettles("r1", o)
  \/ Finish("r1")
  \/ \E d \in SessionTickSteps : SessionTick(d)

RequestSpec == Init /\ [][RequestNext]_vars

\* ------------------------------------------------------------------------
\* Runs of the cookie codec
\* ------------------------------------------------------------------------

\* a session cookie is made for id, written as a Set-Cookie header and read back
SetCookieRoundTrip(id, cfg) ==
  /\ codec.op = "none"
  /\ LET header == formatSetCookieHeader(createSessionCookie(id, cfg)) IN
     codec' = [op |-> "session", name |-> cfg.cookieName, id |-> id, header |-> header,
               parsed |-> parseSessionIdFromCookie(header, cfg), mw |-> Null]
  /\ UNCHANGED <<now, ticks, req, boot>>
  /\ UNCHANGED <<tmVars, sessVars>>

\* the logout cookie is made, written as a Set-Cookie header and read back
LogoutCookie(cfg) ==
  /\ codec.op = "none"
  /\ LET header == formatSetCookieHeader(createLogoutCookie(cfg)) IN
     codec' = [op |-> "logout", name |-> cfg.cookieName, id |-> << >>, header |-> header,
               parsed |-> parseSessionIdFromCookie(header, cfg), mw |-> Null]
  /\ UNCHANGED <<now, ticks, req, boot>>
  /\ UNCHANGED <<tmVars, sessVars>>

\* a Cookie request header is read by the parser of the session module and
\* by the parser of the session middleware
ParseCookieHeader(header, cfg) ==
  /\ codec.op = "none"
  /\ codec' = [op |-> "parse", name |-> cfg.cookieName, id |-> << >>, header |-> header,
               parsed |-> parseSessionIdFromCookie(header, cfg),
               mw |-> middlewareParseSessionIdFromCookie(header)]
  /\ UNCHANGED <<now, ticks, req, boot>>
  /\ UNCHANGED <<tmVars, sessVars>>

\* the browser sends the session cookie of id back: Cookie: <name>=<value>
BrowserReturnsCookie(id, cfg) ==
  /\ codec.op = "none"
  /\ LET cookie == createSessionCookie(id, cfg)
         header == cookie.name \o <<"=">> \o cookie.value
     IN codec' = [op |-> "return", name |-> cfg.cookieName, id |-> id, header |-> header,
                  parsed |-> parseSessionIdFromCookie(header, cfg),
                  mw |-> middlewareParseSessionIdFromCookie(header)]
  /\ UNCHANGED <<now, ticks, req, boot>>
  /\ UNCHANGED <<tmVars, sessVars>>

\* one run of the codec per behaviour: the codec keeps no state between runs
CodecNext ==
  \/ codec.op = "none" /\ \E id \in Strings(MaxIdLen) : \E cfg \in SessionConfigs : SetCookieRoundTrip(id, cfg)
  \/ codec.op = "none" /\ \E cfg \in SessionConfigs : LogoutCookie(cfg)
  \/ codec.op = "none" /\ \E header \in HeaderStrings(MaxIdLen) : \E name \in CookieNames :
        ParseCookieHeader(header, [DefaultSessionConfig EXCEPT !.cookieName = name])
  \/ codec.op = "none" /\ \E id \in {s \in Strings(MaxIdLen) : isGeneratedSessionId(s)} : \E name \in CookieNames :
        BrowserReturnsCookie(id, [DefaultSessionConfig EXCEPT !.cookieName = name])

CodecSpec == Init /\ [][CodecNext]_vars

\* ------------------------------------------------------------------------
\* bootstrap(): nextApp.prepare(), validateTenantOnStartup() raced against a
\* timer, then process.exit(1) or server.listen().  From the settling of the
\* race to exit() or listen() no await intervenes.  A timer that is due runs
\* before the answer of a backend call that arrives later.  (The
\* specifications of the running server above take it as listening.)
\* ------------------------------------------------------------------------
BootTickSteps == {1000, 2000}
validationTimeoutMs == 3000

\* variant: the server is started whatever the validation gave
bootDecisionAlwaysListens(success) == "listen"

\* bootstrap(): if (!tenantResult.success) process.exit(1)
bootDecision(success) == IF success THEN "listen" ELSE "exit"

\* the process after the race has settled with success or failure
AfterValidation(b, success, cause) ==
  IF bootDecision(success) = "listen"
  THEN [b EXCEPT !.pc = "listening", !.result = IF success THEN "success" ELSE "failure",
                 !.cause = cause, !.deadline = NoExpiry, !.listening = TRUE]
  ELSE [b EXCEPT !.pc = "exited", !.result = IF success THEN "success" ELSE "failure",
                 !.cause = cause, !.deadline = NoExpiry]

TimerDue == boot.deadline # NoExpiry /\ now >= boot.deadline

\* nextApp.prepare() resolved: validateTenantOnStartup() calls
\* performValidation(), which runs up to the fetch of /health, and arms the timer
PrepareOk ==
  /\ boot.pc = "prepare"
  /\ boot' = [boot EXCEPT !.pc = "health", !.deadline = now + validationTimeoutMs]
  /\ UNCHANGED <<now, ticks, req, codec>>
  /\ UNCHANGED <<tmVars, sessVars>>

\* nextApp.prepare() rejected: the catch of bootstrap() exits
PrepareFails ==
  /\ boot.pc = "prepare"
  /\ boot' = [boot EXCEPT !.pc = "exited", !.cause = "prepare"]
  /\ UNCHANGED <<now, ticks, req, codec>>
  /\ UNCHANGED <<tmVars, sessVars>>

\* the fetch of /health settles
HealthSettles(answer) ==
  /\ boot.pc = "health"
  /\ ~TimerDue
  /\ boot' = IF answer = "ok" THEN [boot EXCEPT !.pc = "tenantInfo"]
             ELSE AfterValidation(boot, FALSE, "health")
  /\ UNCHANGED <<now, ticks, req, codec>>
  /\ UNCHANGED <<tmVars, sessVars>>

\* infoControllerGetTenantInfo() settles
TenantInfoSettles(answer) ==
  /\ boot.pc = "tenantInfo"
  /\ ~TimerDue
  /\ boot' = IF answer = "tenant" THEN AfterValidation(boot, TRUE, "none")
             ELSE AfterValidation(boot, FALSE, "tenantInfo")
  /\ UNCHANGED <<now, ticks, req, codec>>
  /\ UNCHANGED <<tmVars, sessVars>>

\* the timer of validateTenantOnStartup() fires: the race settles with failure
ValidationTimeout ==
  /\ boot.pc \in {"health", "tenantInfo"}
  /\ TimerDue
  /\ boot' = AfterValidation(boot, FALSE, "timeout")
  /\ UNCHANGED <<now, ticks, req, codec>>
  /\ UNCHANGED <<tmVars, sessVars>>

\* the listening server takes a request
Serve ==
  /\ boot.listening
  /\ boot.pc = "listening"
  /\ boot.served < MaxServed
  /\ boot' = [boot EXCEPT !.served = @ + 1]
  /\ UNCHANGED <<now, ticks, req, codec>>
  /\ UNCHANGED <<tmVars, sessVars>>

\* the clock advances; a due timer runs first
BootTick(d) ==
  /\ ticks < MaxBootTicks
  /\ boot.pc # "exited"
  /\ ~TimerDue
  /\ now' = now + d
  /\ ticks' = ticks + 1
  /\ UNCHANGED <<tmVars, sessVars, gwVars>>

StartupNext ==
  \/ PrepareOk
  \/ PrepareFails
  \/ \E a \in {"ok", "notOk", "threw"} : HealthSettles(a)
  \/ \E a \in {"tenant", "noIdOrName", "threw"} : TenantInfoSettles(a)
  \/ ValidationTimeout
  \/ Serve
  \/ \E d \in BootTickSteps : BootTick(d)

StartupSpec == Init /\ [][StartupNext]_vars

\* ------------------------------------------------------------------------
\* The server process holds one ApiTokenManager and one SessionManager; the
\* operations of both interleave at their awaits.  One outbound call and one
\* operations of both interleave at their awaits.  Two outbound calls (one
\* can join the refresh of the other) and one session request at a time are
\* followed, with one value of each token and the session clock.
\* ------------------------------------------------------------------------
DualLifetimes == {1000, 300000}
DualSessionLifetimes == {0}

DualNext ==
  \/ \E p \in {"a", "b"} : \E url \in RestUrls : Interceptor(p, url)
  \/ \E x \in Slots : InterceptExchange(x)
  \/ \E x \in Slots : \E tv \in {"T1"} : \E life \in DualLifetimes : ExchangeSucceed(x, tv, life)
  \/ \E x \in Slots : ExchangeFail(x)
  \/ \E p \in {"a", "b"} : StarterResume(p)
  \/ \E p \in {"a", "b"} : JoinerResume(p)
  \/ \E p \in {"a", "b"} : Return(p)
  \/ Clear
  \/ \E p \in {"p"} : \E u \in UserIds : \E t \in {"U1"} : \E life \in DualSessionLifetimes :
       CreateSession(p, u, t, life)
  \/ \E p \in {"p"} : \E sid \in SessionIds : GetSessionGet(p, sid)
  \/ \E p \in {"p"} : GetSessionCheck(p)
  \/ \E p \in {"p"} : \E sid \in SessionIds : \E t \in {"U1"} : \E life \in DualSessionLifetimes :
       RefreshUserTokenGet(p, sid, t, life)
  \/ \E p \in {"p"} : RefreshUserTokenSave(p)
  \/ \E p \in {"p"} : \E sid \in SessionIds : DeleteSession(p, sid)
  \/ \E p \in {"p"} : SessionReturn(p)
  \/ \E d \in SessionTickSteps : SessionTick(d)

DualSpec == Init /\ [][DualNext]_vars

\* liveness: the microtask queue drains, and the backend answers every exchange
\* request it was sent (axios fails the call after its timeout otherwise)
\* (the clock is left out, no step of a pending call waits for it, and each
\* caller carries one request)
LiveNext ==
  \/ \E p \in Callers : \E url \in RestUrls : Interceptor(p, url)
  \/ \E x \in Slots : InterceptExchange(x)
  \/ \E x \in Slots : \E tv \in TokenVals : \E life \in Lifetimes : ExchangeSucceed(x, tv, life)
  \/ \E x \in Slots : ExchangeFail(x)
  \/ \E p \in Callers : StarterResume(p)
  \/ \E p \in Callers : JoinerResume(p)
  \/ Clear

FairSpec ==
  /\ Init /\ [][LiveNext]_vars
  /\ WF_vars(\E x \in Slots : InterceptExchange(x))
  /\ WF_vars(\E x \in Slots : ExchangeFail(x) \/ \E tv \in TokenVals : \E life \in Lifetimes : ExchangeSucceed(x, tv, life))
  /\ \A p \in Callers : WF_vars(StarterResume(p))
  /\ \A p \in Callers : WF_vars(JoinerResume(p))

\* ------------------------------------------------------------------------
\* Properties
\* ------------------------------------------------------------------------
Pending(p) == call[p].pc \in {"started", "waiting"}
Unanswered(p) == Pending(p) /\ promise[call[p].awaiting].state = "pending"
Outstanding == {x \in Slots : promise[x].state = "pending"}

\* the step in which caller p's getToken() runs its synchronous part
Invokes(p) == call[p].pc = "idle" /\ call'[p].pc # "idle" /\ call'[p].how # "skip"
\* the step in which caller p's getToken() returns from its await
Resumes(p) == Pending(p) /\ call'[p].pc = "done"

\* C1: getToken() calls that are in flight together before the exchange has
\* answered are all attached to one and the same exchange call, and the calls
\* attached to one exchange all complete with the same outcome (the same token).
C1_SingleFlight ==
  \A p, q \in Callers :
    /\ (Unanswered(p) /\ Unanswered(q)) => call[p].xid = call[q].xid
    /\ (call[p].pc = "done" /\ call[q].pc = "done" /\ call[p].xid # 0 /\ call[p].xid = call[q].xid)
         => call[p].result = call[q].result

\* three callers, no token ever cached before, one exchange, one token for all
C1_Witness ==
  /\ exchangeCalls = 1
  /\ answered = 1
  /\ \A p \in Callers : call[p].pc = "done" /\ call[p].xid = 1 /\ call[p].result = "T2"

\* C2: in every reachable state at most one token-exchange call is outstanding.
C2_AtMostOneOutstanding == Cardinality(Outstanding) <= 1

\* a second exchange is outstanding after clear() dropped the first token,
\* with two callers attached to it
C2_Witness ==
  /\ exchangeCalls = 2
  /\ answered = 1
  /\ token = NoToken
  /\ Cardinality(Outstanding) = 1
  /\ \E p, q \in Callers : p # q /\ Unanswered(p) /\ Unanswered(q)

\* C3: a getToken() call that finds a cached token with expiresAt - now greater
\* than the margin returns that token at once and makes no exchange call.
C3_FreshSide ==
  [][\A p \in Callers :
       (Invokes(p) /\ token # NoToken /\ expiresAt # NoExpiry
          /\ expiresAt - now > refreshThresholdMs)
       => /\ call'[p].pc = "done"
          /\ call'[p].how = "cache"
          /\ call'[p].result = token
          /\ exchangeCalls' = exchangeCalls]_vars

\* the token expires in 10 minutes; a call one second later is served from the
\* cache, as the call before it was, with a single exchange made
C3_Witness ==
  /\ exchangeCalls = 1
  /\ now = 1000
  /\ expiresAt = 600000
  /\ \E p, q \in Callers :
       /\ p # q
       /\ call[p].pc = "done" /\ call[p].how = "cache" /\ call[p].result = token
       /\ call[q].pc = "done" /\ call[q].how = "cache" /\ call[q].result = token

\* C4 as stated: the cached token is handed out directly only if
\* expiresAt - now > margin (so not when exactly the margin is left).
C4_CachedOnlyIfAboveMargin ==
  [][\A p \in Callers :
       (Invokes(p) /\ call'[p].how = "cache")
       => (token # NoToken /\ expiresAt # NoExpiry /\ expiresAt - now > refreshThresholdMs)]_vars

\* C4 amended: the cached token is handed out directly only if
\* expiresAt - now >= margin; with less than the margin left (or expired, or
\* nothing cached) the call starts or joins a refresh, and what it returns is
\* the value of that refresh or its error.
C4_StaleSide ==
  [][\A p \in Callers :
       /\ (Invokes(p) /\ call'[p].how = "cache")
            => (token # NoToken /\ expiresAt # NoExpiry /\ expiresAt - now >= refreshThresholdMs)
       /\ (Invokes(p) /\ (token = NoToken \/ expiresAt = NoExpiry \/ expiresAt - now < refreshThresholdMs))
            => (call'[p].how \in {"start", "join"} /\ call'[p].pc \in {"started", "waiting"}
                /\ call'[p].result = None)
       /\ Resumes(p)
            => \/ promise[call[p].awaiting].state = "fulfilled"
                  /\ call'[p].result = promise[call[p].awaiting].value
               \/ promise[call[p].awaiting].state = "rejected" /\ call'[p].result = Err]_vars

\* a caller met a cached token with less than the margin left and got the
\* refreshed one; another was served from the cache with exactly the margin left
C4_Witness ==
  /\ \E p \in Callers : /\ call[p].pc = "done" /\ call[p].how \in {"start", "join"}
                        /\ call[p].xid = 2 /\ call[p].result \in TokenVals
  /\ \E q \in Callers : /\ call[q].pc = "done" /\ call[q].how = "cache"
                        /\ expiresAt - now = refreshThresholdMs

\* the expiry that goes with the value caller p is about to be handed
ExpiryHandedTo(p) ==
  IF call'[p].how = "cache" THEN expiresAt ELSE promise[call[p].awaiting].exp
ReturnsToken(p) ==
  /\ call'[p].result \in TokenVals
  /\ (Invokes(p) /\ call'[p].how = "cache") \/ Resumes(p)

\* C5 as stated: every token getToken() returns, from the cache or from a
\* refresh, is valid for at least the margin at the moment it is returned.
C5_EveryTokenValidForMargin ==
  [][\A p \in Callers :
       ReturnsToken(p) => ExpiryHandedTo(p) - now >= refreshThresholdMs]_vars

\* C5 amended: every token getToken() returns from the cache is valid for at
\* least the margin at the moment it is returned, and a token returned from a
\* refresh is the one the exchange delivered, with the expiry the backend gave.
C5_CachedTokenValidForMargin ==
  [][\A p \in Callers :
       /\ (ReturnsToken(p) /\ call'[p].how = "cache")
            => (call'[p].result = token /\ expiresAt - now >= refreshThresholdMs)
       /\ (ReturnsToken(p) /\ call'[p].how # "cache")
            => call'[p].result = promise[call[p].awaiting].value]_vars

\* a token is served from the cache some time after it was issued
C5_Witness ==
  /\ ticks > 0
  /\ expiresAt - now < 600000
  /\ \E p \in Callers : call[p].pc = "done" /\ call[p].how = "cache" /\ call[p].result = token

\* C6: a failed exchange leaves the cached token and expiry as they were, its
\* error reaches the call that started the refresh and every call attached to
\* it, and no exchange is started on behalf of a call that is being resumed
\* (an exchange call is only ever made by a getToken() call that starts one).
C6_FailureLeavesState ==
  [][/\ \A x \in Slots :
          (promise[x].state = "pending" /\ promise'[x].state = "rejected")
          => (token' = token /\ expiresAt' = expiresAt)
     /\ \A p \in Callers :
          (Resumes(p) /\ promise[call[p].awaiting].state = "rejected")
          => (call'[p].result = Err /\ exchangeCalls' = exchangeCalls)
     /\ exchangeCalls' # exchangeCalls
          => \E p \in Callers : Invokes(p) /\ call'[p].how = "start"]_vars

\* the refresh of a stale token failed: the token is still cached, the starter
\* and a joiner both hold the error, and no further exchange was made
C6_Witness ==
  /\ token # NoToken
  /\ exchangeCalls = 2
  /\ answered = 2
  /\ \E p, q \in Callers :
       /\ call[p].pc = "done" /\ call[p].how = "start" /\ call[p].xid = 2 /\ call[p].result = Err
       /\ call[q].pc = "done" /\ call[q].how = "join" /\ call[q].xid = 2 /\ call[q].result = Err

\* C7: the exchange request never waits for a token and carries no
\* Authorization header, and every pending getToken() call eventually
\* completes, with a token or an error.
C7_RefreshNeverWaitsOnItself ==
  /\ [](\A x \in Slots : xreq[x].pc # "waiting" /\ xreq[x].auth = NoAuth)
  /\ \A p \in Callers : Pending(p) ~> (call[p].pc = "done")

\* an exchange request went out bare while three callers waited, ...
C7_Witness ==
  /\ \E x \in Slots : xreq[x].pc = "sent" /\ xreq[x].auth = NoAuth
  /\ \A p \in Callers : Unanswered(p)

GetSessionReturns(p) == proc[p].pc = "got" /\ proc[p].op = "get" /\ proc'[p].pc = "done"

\* C9: once the record of a session id has been removed, no getSession(id)
\* issued after the removal returns a record for that id.
C9_NoRecordAfterRemoval ==
  \A p \in Procs :
    (proc[p].pc = "done" /\ proc[p].op = "get" /\ proc[p].afterRemoval)
    => proc[p].ret = NoSession

\* C10: getSession(id) that finds userTokenExpiresAt earlier than now returns
\* null and leaves no record of id in the store, and every getSession(id)
\* issued after such a removal returns null.
C10_LazyExpiry ==
  [][\A p \in Procs :
       /\ (GetSessionReturns(p) /\ proc[p].session # NoSession
             /\ obj[proc[p].session].userTokenExpiresAt < now)
            => (proc'[p].ret = NoSession /\ proc[p].sid \notin sessions')
       /\ (GetSessionReturns(p) /\ proc[p].afterExpiry)
            => proc'[p].ret = NoSession]_vars

\* C11 as stated: a getSession(i) issued after createSession() returned i, with
\* no delete of i in between and before the expiry, returns a record equal to
\* the input on every field but lastAccessedAt, and that lastAccessedAt is
\* later than at creation.
C11_RoundTripAdvances ==
  [][\A p \in Procs :
       (/\ GetSessionReturns(p) /\ proc[p].session # NoSession
        /\ proc[p].sid \notin removed
        /\ ~userTokenExpired(input[proc[p].sid].userTokenExpiresAt, now))
       => /\ proc'[p].ret = proc[p].sid
          /\ obj'[proc[p].sid].userId = input[proc[p].sid].userId
          /\ obj'[proc[p].sid].userToken = input[proc[p].sid].userToken
          /\ obj'[proc[p].sid].userTokenExpiresAt = input[proc[p].sid].userTokenExpiresAt
          /\ obj'[proc[p].sid].createdAt = input[proc[p].sid].at
          /\ obj'[proc[p].sid].lastAccessedAt > input[proc[p].sid].at]_vars

\* C11 amended: a getSession(i) issued after createSession() returned i, with
\* no delete and no refreshUserToken of i in between and before the expiry,
\* returns the record with id i, equal to the input on every field but
\* lastAccessedAt, and that lastAccessedAt is the time of this getSession,
\* which is not earlier than the creation (equal within one millisecond).
C11_RoundTrip ==
  [][\A p \in Procs :
       (/\ GetSessionReturns(p) /\ proc[p].session # NoSession
        /\ proc[p].sid \notin removed
        /\ proc[p].sid \notin refreshed
        /\ ~userTokenExpired(input[proc[p].sid].userTokenExpiresAt, now))
       => /\ proc'[p].ret = proc[p].sid
          /\ obj'[proc[p].sid].userId = input[proc[p].sid].userId
          /\ obj'[proc[p].sid].userToken = input[proc[p].sid].userToken
          /\ obj'[proc[p].sid].userTokenExpiresAt = input[proc[p].sid].userTokenExpiresAt
          /\ obj'[proc[p].sid].createdAt = input[proc[p].sid].at
          /\ obj'[proc[p].sid].lastAccessedAt = now
          /\ now >= input[proc[p].sid].at]_vars

\* a session created at time 0 was read back one millisecond later by another
\* request: same fields, lastAccessedAt moved on
C11_Witness ==
  \E p \in Procs :
    /\ proc[p].pc = "done" /\ proc[p].op = "get" /\ proc[p].ret \in SessionIds
    /\ proc[p].ret \notin removed /\ proc[p].ret \notin refreshed
    /\ obj[proc[p].ret].userToken = input[proc[p].ret].userToken
    /\ obj[proc[p].ret].userTokenExpiresAt = input[proc[p].ret].userTokenExpiresAt
    /\ obj[proc[p].ret].createdAt = input[proc[p].ret].at
    /\ obj[proc[p].ret].lastAccessedAt > obj[proc[p].ret].createdAt

\* the tenantId claim a token of the model carries
TenantClaim(tok) == jwtParts(tok)[2].claims.tenantId

\* C12: a proxied GraphQL request whose user token carries another tenantId
\* than the Bearer token is answered 401 and is never sent to the backend
\* GraphQL endpoint.
C12_TenantMismatchRejected ==
  \A r \in Reqs :
    (/\ req[r].route = "graphql"
     /\ req[r].bearerToken \in TokenVals /\ req[r].userToken \in UserTokens
     /\ TenantClaim(req[r].userToken) # TenantClaim(req[r].bearerToken))
    => /\ req[r].status = 401
       /\ req[r].resBody = <<"errors", "UNAUTHENTICATED">>
       /\ ~req[r].fetched /\ req[r].fwd = NoFwd

\* Bearer token of tenant 1, session with a user token of tenant 2: 401
C12_Witness ==
  \E r \in Reqs :
    /\ req[r].route = "graphql" /\ req[r].pc = "done"
    /\ req[r].bearerToken = "T1" /\ req[r].userToken = "U2"
    /\ req[r].sessionId = "sess_1"
    /\ req[r].status = 401 /\ ~req[r].fetched

\* C13: if getToken() fails, the GraphQL request is answered 401 with the
\* GraphQL error envelope (errors, code UNAUTHENTICATED) and nothing is sent
\* to the backend GraphQL endpoint.
C13_NoBearerRejected ==
  \A r \in Reqs :
    (req[r].route = "graphql" /\ req[r].bearerToken = Err)
    => /\ req[r].pc = "done"
       /\ req[r].status = 401
       /\ req[r].resBody = <<"errors", "UNAUTHENTICATED">>
       /\ ~req[r].fetched /\ req[r].fwd = NoFwd

\* a request with a query and a validated session met a failing getToken()
C13_Witness ==
  \E r \in Reqs :
    /\ req[r].route = "graphql" /\ req[r].bearerToken = Err
    /\ req[r].body.query /\ req[r].sessionId = "sess_1" /\ "sess_1" \in sessions
    /\ req[r].status = 401

\* the step in which request r is sent to the backend GraphQL endpoint
Forwards(r) == ~req[r].fetched /\ req'[r].fetched

ClearsSessionCookie(h) ==
  /\ StartsWith(h, cookieName \o <<"=">>)
  /\ Len(h) > 2 => h[3] = ";"
HasAttribute(h, a) == \E i \in 1..Len(cookiesOf(h)) : cookiesOf(h)[i] = a

\* C15: if the revoke call fails during POST /auth/logout (the backend
\* refuses, or no Bearer token could be obtained), the session is still
\* deleted from the store and the answer is still 200 with the logout cookie.
C15_RevocationBestEffort ==
  [][\A r \in Reqs :
       (req[r].pc = "revokeWait" /\ req'[r].revoke \in {"backend", "noBearer"})
       => /\ req'[r].pc = "done"
          /\ req[r].sessionId \notin sessions'
          /\ req'[r].status = 200
          /\ ClearsSessionCookie(req'[r].setCookie)]_vars

\* a logout whose revoke call found no Bearer token: 200, store empty
C15_Witness ==
  \E r \in Reqs :
    /\ req[r].route = "logout" /\ req[r].pc = "done" /\ req[r].revoke = "noBearer"
    /\ req[r].status = 200 /\ ClearsSessionCookie(req[r].setCookie)
    /\ sessions = {} /\ unused = {}

\* C16 as stated: every POST /auth/logout is answered 200 with a logout
\* cookie, whatever goes wrong.
C16_LogoutAlwaysSucceeds ==
  \A r \in Reqs :
    (req[r].route = "logout" /\ req[r].pc = "done")
    => (req[r].status = 200 /\ ClearsSessionCookie(req[r].setCookie))

\* C16 amended: a POST /auth/logout whose session the middleware validated is
\* answered 200 with a logout cookie whatever happens afterwards (revocation
\* fails, the session is gone or has expired by the time the handler looks
\* it up); a logout without a validated session is answered 401 without a
\* cookie.
C16_LogoutAbsorbsFailures ==
  \A r \in Reqs :
    (req[r].route = "logout" /\ req[r].pc = "done")
    => IF req[r].sessionId # NoSession
       THEN req[r].status = 200 /\ ClearsSessionCookie(req[r].setCookie)
       ELSE req[r].status = 401 /\ req[r].setCookie = << >>

\* two logouts of one session: the second found the session gone after the
\* middleware had validated it, made no revoke call, and was answered 200
C16_Witness ==
  \E r, q \in Reqs :
    /\ r # q
    /\ req[r].route = "logout" /\ req[r].pc = "done" /\ req[r].revoke = "backend"
    /\ req[q].route = "logout" /\ req[q].pc = "done" /\ req[q].revoke = "none"
    /\ req[q].sessionId = "sess_1" /\ req[q].status = 200
    /\ ClearsSessionCookie(req[q].setCookie)

\* C17: the Set-Cookie header of a successful logout names the session cookie
\* with an empty value and carries Max-Age=0.
C17_LogoutCookieExpires ==
  \A r \in Reqs :
    (req[r].route = "logout" /\ req[r].status = 200)
    => /\ ClearsSessionCookie(req[r].setCookie)
       /\ HasAttribute(req[r].setCookie, <<"Max-Age", "=", "0">>)

\* the step in which the backend's success reaches the login handler
LoginSucceeds(r) == req[r].pc = "loginWait" /\ req'[r].loginResponse # NoLoginResponse

\* C19: a login the backend accepts with token T and expiresAt creates exactly
\* one new session, with userToken T and userTokenExpiresAt the instant
\* expiresAt names, and is answered 200 with a Set-Cookie header whose value
\* is the id of that session, the id the body reports as sessionId.
C19_LoginCreatesSession ==
  [][\A r \in Reqs :
       LoginSucceeds(r)
       => /\ req'[r].status = 200
          /\ \E i \in SessionIds :
               /\ i \notin sessions /\ sessions' = sessions \cup {i}
               /\ obj'[i].userToken = req'[r].loginResponse.token
               /\ obj'[i].userTokenExpiresAt = req'[r].loginResponse.expiresAt[2]
               /\ parseSessionIdFromCookie(req'[r].setCookie, DefaultSessionConfig) = sessionIdString(i)
               /\ req'[r].resBody = <<"success", ToString(req'[r].loginResponse.user), i>>]_vars

\* a login with token U2 was answered with the cookie of session sess_1
C19_Witness ==
  \E r \in Reqs :
    /\ req[r].route = "login" /\ req[r].status = 200
    /\ req[r].loginResponse.token = "U2"
    /\ sessions = {"sess_1"} /\ obj["sess_1"].userToken = "U2"
    /\ parseSessionIdFromCookie(req[r].setCookie, DefaultSessionConfig) = sessionIdString("sess_1")
    /\ req[r].resBody = <<"success", "7", "sess_1">>

\* a login body that fails the shape test: a field is missing, the email has
\* no '@', or the password has fewer than 8 characters
ShapeFails(body) ==
  \/ body.email = Null \/ body.password = Null
  \/ \A i \in 1..Len(body.email) : body.email[i] # "@"
  \/ Len(body.password) < 8

C18_CookieRoundTrip ==
  (codec.op = "session" /\ isGeneratedSessionId(codec.id)) => codec.parsed = codec.id

\* the cookie of sess_1_11 went through the header, with the Secure attribute
C18_Witness ==
  /\ codec.op = "session"
  /\ codec.id = <<"sess", "_", "1", "_", "1">>
  /\ codec.header = <<"auth-session", "=", "sess", "_", "1", "_", "1", ";", " ",
                      "Max-Age", "=", "3600", ";", " ", "Path", "=", "/", ";", " ",
                      "HttpOnly", ";", " ", "Secure", ";", " ", "SameSite", "=", "strict">>
  /\ codec.parsed = codec.id

\* C26: an in-flight refresh is recorded only while the getToken() call that
\* started it has not completed; that call clears the marker when it
\* completes, with a token or an error; and a getToken() call that needs a
\* token while no starter is pending starts a fresh exchange of its own.
C26_MarkerCleared ==
  /\ [](refreshPromise # NoPromise
         => \E p \in Callers : call[p].pc = "started" /\ call[p].awaiting = refreshPromise)
  /\ [][\A p \in Callers :
          /\ (call[p].pc = "started" /\ call'[p].pc = "done") => refreshPromise' = NoPromise
          /\ (/\ Invokes(p)
              /\ \A q \in Callers : call[q].pc # "started"
              /\ (token = NoToken \/ expiresAt = NoExpiry \/ needsRefresh(expiresAt, now)))
             => /\ call'[p].how = "start"
                /\ call'[p].xid = exchangeCalls + 1
                /\ promise'[call'[p].awaiting].state = "pending"]_vars

\* the first exchange failed and its starter holds the error; the marker is
\* gone, and a later call has started the second exchange
C26_Witness ==
  /\ exchangeCalls = 2 /\ answered = 1 /\ token = NoToken
  /\ \E p, q \in Callers :
       /\ call[p].pc = "done" /\ call[p].how = "start" /\ call[p].xid = 1 /\ call[p].result = Err
       /\ call[q].pc = "started" /\ call[q].xid = 2 /\ refreshPromise = call[q].awaiting
       /\ promise[refreshPromise].state = "pending"

\* the cached pair is written in this step
WritesToken == token' # token \/ expiresAt' # expiresAt

\* the exchange the in-flight marker names delivers its token in this step
HolderStores ==
  \E x \in Slots :
    /\ refreshPromise = x
    /\ promise[x].state = "pending" /\ promise'[x].state = "fulfilled"
    /\ token' = promise'[x].value /\ expiresAt' = promise'[x].exp

\* C27 as stated: the cached token and expiry are written by the holder of
\* the in-flight refresh only; every other code path only reads them.
C27_SingleWriter == [][WritesToken => HolderStores]_vars

\* C27 amended: the cached token and expiry are written by the exchange the
\* in-flight marker names when it succeeds, and by clear(), which sets both
\* to null and may run while a refresh is in flight; getToken() calls served
\* from the cache, joining calls and a failed exchange only read them.
C27_WritersAreRefreshAndClear ==
  [][WritesToken
     => \/ HolderStores
        \/ /\ token' = NoToken /\ expiresAt' = NoExpiry
           /\ promise' = promise /\ call' = call /\ refreshPromise' = refreshPromise]_vars

\* clear() has dropped the token an exchange stored, while the call that
\* started that exchange still holds the marker
C27_Witness ==
  \E x \in Slots :
    /\ refreshPromise = x /\ promise[x].state = "fulfilled" /\ promise[x].value \in TokenVals
    /\ token = NoToken /\ expiresAt = NoExpiry

\* the step in which request p's refreshUserToken() runs the code after its await
RefreshUserTokenReturns(p) == proc[p].pc = "got" /\ proc[p].op = "refresh" /\ proc'[p].pc = "done"

\* C28: refreshUserToken() on a session storage.get() found writes userToken,
\* userTokenExpiresAt and lastAccessedAt and leaves the id, the userId and
\* createdAt of the record as they were; on an id without a record it
\* returns null and leaves the store as it was.
C28_RefreshKeepsIdentity ==
  [][\A p \in Procs :
       RefreshUserTokenReturns(p)
       => IF proc[p].session = NoSession
          THEN proc'[p].ret = NoSession /\ sessions' = sessions /\ obj' = obj
          ELSE /\ proc'[p].ret = proc[p].sid
               /\ obj'[proc[p].sid].userId = obj[proc[p].sid].userId
               /\ obj'[proc[p].sid].createdAt = obj[proc[p].sid].createdAt
               /\ obj'[proc[p].sid].userToken = proc[p].newUserToken
               /\ obj'[proc[p].sid].userTokenExpiresAt = proc[p].userTokenExpiresAt
               /\ obj'[proc[p].sid].lastAccessedAt = now
               /\ \A i \in SessionIds \ {proc[p].sid} : obj'[i] = obj[i]]_vars

\* one refresh met no record and returned null; another, a millisecond after
\* the session was created with U1, gave it U2 and kept userId and createdAt
C28_Witness ==
  \E p, q \in Procs :
    /\ proc[q].pc = "done" /\ proc[q].op = "refresh" /\ proc[q].ret = NoSession
    /\ proc[p].pc = "done" /\ proc[p].op = "refresh" /\ proc[p].ret = "sess_1"
    /\ input["sess_1"].userToken = "U1" /\ obj["sess_1"].userToken = "U2"
    /\ obj["sess_1"].userId = input["sess_1"].userId
    /\ obj["sess_1"].createdAt = input["sess_1"].at
    /\ obj["sess_1"].lastAccessedAt > obj["sess_1"].createdAt

\* what the caller of a parser makes of its result: '' counts as no session id
Resolved(sessionId) == IF sessionId = << >> THEN Null ELSE sessionId

\* C29: the parser of the session middleware and parseSessionIdFromCookie()
\* resolve the same session id from every Cookie header, whatever cookie name
\* is configured, and the middleware's parser finds the id in the cookie that
\* login emitted under the configured name.
C29_ParsersAgree ==
  /\ codec.op \in {"parse", "return"} => Resolved(codec.mw) = Resolved(codec.parsed)
  /\ codec.op = "return" => codec.mw = codec.id

SecretTokens == AllBearerTokens \cup AllUserTokens

\* C22: no response body and no Set-Cookie header of a login, me, logout,
\* password-reset or proxy answer the server itself writes contains a Bearer
\* token or a user token.
C22_NoTokenToClient ==
  \A r \in Reqs :
    /\ \A i \in 1..Len(req[r].resBody) : req[r].resBody[i] \notin SecretTokens
    /\ \A i \in 1..Len(req[r].setCookie) : req[r].setCookie[i] \notin SecretTokens

\* GET /me was answered 200 from a session that holds user token U1: the
\* body names the user, the session id and the three dates
C22_Witness ==
  /\ req["r1"].route = "me" /\ req["r1"].status = 200
  /\ "sess_1" \in sessions /\ obj["sess_1"].userToken = "U1"
  /\ Len(req["r1"].resBody) = 6
  /\ req["r1"].resBody[2] = "7" /\ req["r1"].resBody[3] = "sess_1"

\* the email test of the handlers passes
WellFormedEmail(email) ==
  email # Null /\ email # << >> /\ \E i \in 1..Len(email) : email[i] = "@"

\* C25: a password-reset request with a well-formed email is answered 200
\* with the same generic body whether the backend knows the account (and
\* whether or not the reset email could then be sent) or answers 404 because
\* it does not.
C25_NoUserEnumeration ==
  \A r \in Reqs :
    (/\ req[r].route = "reset" /\ req[r].pc = "done"
     /\ WellFormedEmail(req[r].body.email)
     /\ \/ req[r].upstream = "ok"
        \/ req[r].upstream = "error" /\ req[r].backendError.status = 404)
    => /\ req[r].status = 200
       /\ req[r].resBody = <<"success", "If an account exists with that email, you will receive a password reset link.">>
       /\ req[r].setCookie = << >>

\* the backend did not know the account, and the answer is the generic 200
C25_Witness ==
  /\ req["r1"].route = "reset" /\ req["r1"].pc = "done"
  /\ req["r1"].upstream = "error" /\ req["r1"].backendError.status = 404
  /\ req["r1"].status = 200 /\ req["r1"].mail = "none"

\* the token has three segments, its payload decodes and carries a tenantId
\* other than 0
ReadableTenant(tok) ==
  /\ Len(jwtParts(tok)) = 3
  /\ jwtParts(tok)[2].json
  /\ "tenantId" \in DOMAIN jwtParts(tok)[2].claims
  /\ jwtParts(tok)[2].claims.tenantId # 0

\* C30: a proxied request with a user token is answered 401, and not sent to
\* the backend, if the tenantId claim of the Bearer token or of the user
\* token cannot be read; every forwarded request that carries X-User-Token
\* has a Bearer token and a user token with readable, equal tenantId claims.
C30_TenantCheckFailsClosed ==
  \A r \in Reqs :
    /\ (/\ req[r].route = "graphql"
        /\ req[r].bearerToken \in AllBearerTokens /\ req[r].userToken \in AllUserTokens
        /\ ~(ReadableTenant(req[r].bearerToken) /\ ReadableTenant(req[r].userToken)))
       => /\ req[r].pc = "done" /\ req[r].status = 401
          /\ req[r].resBody = <<"errors", "UNAUTHENTICATED">>
          /\ ~req[r].fetched /\ req[r].fwd = NoFwd
    /\ (req[r].fetched /\ req[r].fwd.xUserToken # None)
       => /\ ReadableTenant(req[r].bearerToken) /\ ReadableTenant(req[r].fwd.xUserToken)
          /\ TenantClaim(req[r].bearerToken) = TenantClaim(req[r].fwd.xUserToken)

\* a session whose user token has no tenantId claim: the proxy answered 401
C30_Witness ==
  /\ req["r1"].route = "graphql" /\ req["r1"].pc = "done"
  /\ req["r1"].bearerToken = "T1" /\ req["r1"].userToken = "U5"
  /\ req["r1"].body.query
  /\ req["r1"].status = 401 /\ ~req["r1"].fetched

\* C24: the server listens, and takes requests, only after the tenant
\* validation has returned success; a validation that fails, and one that has
\* not completed when the 3 seconds of the timer have passed, gives a failure
\* result, and the process then exits and never listens.
C24_StartupGating ==
  /\ []((boot.listening \/ boot.served > 0) => boot.result = "success")
  /\ [](boot.result = "failure" => (boot.pc = "exited" /\ ~boot.listening /\ boot.served = 0))
  /\ [][boot.pc = "exited" => boot' = boot]_vars
  /\ [][(boot.pc \in {"health", "tenantInfo"} /\ now >= boot.deadline /\ boot' # boot)
          => (boot'.result = "failure" /\ boot'.cause = "timeout" /\ boot'.pc = "exited")]_vars

\* the health check passed after two seconds, the tenant information had not
\* arrived at three: the validation timed out and the process exited
C24_Witness ==
  /\ boot.pc = "exited" /\ boot.result = "failure" /\ boot.cause = "timeout"
  /\ ~boot.listening /\ now = 3000 /\ ticks = 2

\* a step of a TokenManager operation; a step of a SessionManager operation
TokenManagerStep == tmVars' # tmVars
SessionManagerStep == sessVars' # sessVars

\* C23: no operation of the token manager changes a session record, no
\* operation of the session manager changes the cached token, its expiry or
\* the in-flight refresh, and no session record holds a Bearer token.
C23_LifecyclesDecoupled ==
  /\ [](\A sid \in SessionIds : obj[sid].userToken \notin TokenVals)
  /\ [][TokenManagerStep => UNCHANGED <<sessions, obj>>]_vars
  /\ [][SessionManagerStep => UNCHANGED <<token, expiresAt, refreshPromise>>]_vars

\* a token is cached and a refresh is in flight while a session whose user
\* token has been refreshed is stored
C23_Witness ==
  /\ token \in TokenVals /\ refreshPromise # NoPromise
  /\ sessions # {} /\ refreshed # {}
  /\ \E sid \in sessions : obj[sid].userToken \in UserTokens

====
